---- MODULE Spec2Model ----
(***************************************************************************)
(* State-machine model of zynlibs/zynaudioplayer/player.c: the player      *)
(* registry g_players, the API functions, the file reader thread           *)
(* file_thread_fn and the JACK process callback on_jack_process.           *)
(*                                                                         *)
(* Conventions                                                             *)
(*  - enum values keep their C values (STOPPED = 0 ...).                   *)
(*  - float values are fixed point: gain in 1/GainScale, pitch_shift in    *)
(*    1/FScale, sample values as integers, times in 1/TimeScale of the     *)
(*    time unit in which sample rates are counted.                         *)
(*  - src_ratio (a double) is the pair <<g_samplerate, file samplerate>>.  *)
(*  - a ring buffer is the sequence of the native frame numbers of the     *)
(*    samples it holds, with its capacity in whole samples.                *)
(***************************************************************************)
EXTENDS Integers, Sequences, FiniteSets, TLC

VARIABLES
    g_players,      \* player.c:100  the registry, handle -> NULL or struct AUDIO_PLAYER
    g_samplerate,   \* player.c:103  playback samplerate set by jackd
    worker,         \* file_thread_fn: per handle, the thread's position and locals
    api,            \* the API thread: idle, or blocked inside load / unload / remove_player
    call,           \* the API call that returned in the last step: operation, handle, lookup result, return value
    rt,             \* what the on_jack_process period of the last step did to each player
    cb_last,        \* the invocation of the registered callback cb_fn made in the last step
    crashed,        \* the process was terminated by a fault (SIGSEGV / SIGFPE)
    dmx,            \* the demultiplexer applied to one frame (SpecDemux only)
    res,            \* what malloc and jackd have run out of, and the allocations nothing refers to
    period,         \* where on_jack_process is: outside a period, or past line 653 for the first player
    ctrl            \* zynmidicontroller.cpp: g_bMutex, g_vSendQueue and the threads that use them

vars == <<g_players, g_samplerate, worker, api, call, rt, cb_last, crashed, dmx, res, period, ctrl>>

-----------------------------------------------------------------------------
(* Program constants *)

MAX_PLAYERS == 17

STOPPED == 0
STARTING == 1
PLAYING == 2
STOPPING == 3

IDLE == 0
SEEKING == 1
LOADING == 2
LOOPING == 3

FILE_CLOSED == 0
FILE_OPENING == 1
FILE_OPEN == 2

\* last_play_state = -1 stored in a uint8_t
NO_PLAY_STATE == 255

DefaultBufferSize == 48000
DefaultBufferCount == 5
SizeofFloat == 4

NOTE_OFF == 128
NOTE_ON == 144
PITCH_BEND == 224
MIDDLE_C == 60
BEND_CENTRE == 8192

\* a null struct pointer held in a slot or field, and a null pointer as a lookup result
NULL == [null |-> TRUE]
NULL_PTR == 0 - 1

\* pitch_shift (a float) is counted in 1/FScale, pow()'s double result in 1/DScale
FScale == 2 ^ 8
DScale == 2 ^ 14
\* 1.059463094359 in 1/DScale
SEMITONE == 17358

-----------------------------------------------------------------------------
(* Bounds of the model and the input sets drawn from them *)

\* resolution of the gain: one unit is 1/GainScale
GainScale == 2
\* frames in the longest file
MaxFrames == 4
\* channels of the widest file given to the demultiplexer
MaxChannels == 4
\* largest sample value of a frame given to the demultiplexer
MaxSample == 2
\* frames of one JACK period
PeriodFrames == 2
\* longest time given to a setter, in time units
MaxTime == 6
\* largest input buffer, in frames, given to set_buffer_size
MaxBuffer == 2
\* messages the send queue of the MIDI controller is let grow to
MaxQueue == 2

\* sample rates, in frames per time unit, of jackd and of the files
Rates == {1, 2}

\* sample values of the frames given to the demultiplexer
Samples == 0..MaxSample

\* track numbers given to set_track_a and set_track_b: one below mix, mix, every
\* channel, one too many
Tracks == (0 - 2)..MaxChannels

RECURSIVE Gcd(_, _)
Gcd(a, b) == IF b = 0 THEN a ELSE Gcd(b, a % b)

Lcm(a, b) == (a * b) \div Gcd(a, b)

RECURSIVE LcmOf(_)
LcmOf(S) == IF S = {} THEN 1 ELSE LET x == CHOOSE y \in S : TRUE IN Lcm(x, LcmOf(S \ {x}))

\* times are counted in 1/TimeScale: every frames / samplerate quotient is exact
TimeScale == LcmOf(Rates)

Times == 0..(MaxTime * TimeScale)

\* legs are counted in 1/LegScale of a sample unit: every division of the demultiplexer
\* is exact
LegScale == LcmOf({2} \cup {c \div 2 : c \in 2..MaxChannels})

\* gains given to set_gain: from below 0 to above 2.0
Gains == (0 - 1)..(2 * GainScale + 1)

\* handles given to the API: negative, occupied or not, the last slot, and past the table
ApiHandles == {0 - 1, 0, MAX_PLAYERS - 1, MAX_PLAYERS, MAX_PLAYERS + 1}

\* handles on which add_player is tried
AddHandles == {0 - 1, 0, MAX_PLAYERS, MAX_PLAYERS + 1}

\* sizes given to set_buffer_size and counts given to set_buffer_count (1 is refused)
BufferSizes == 1..MaxBuffer
BufferCounts == {1, 2}

Min(a, b) == IF a < b THEN a ELSE b
Max(a, b) == IF a > b THEN a ELSE b

-----------------------------------------------------------------------------
(* Files the decoder can be given (sf_open fills sf_info from them) *)

\* sf_open fails
BadFile == [ok |-> FALSE, channels |-> 0, samplerate |-> 0, frames |-> 0]
\* sf_open succeeds and reports no channels
NoChannelFile == [ok |-> TRUE, channels |-> 0, samplerate |-> 1, frames |-> MaxFrames]
GoodFiles == {[ok |-> TRUE, channels |-> 2, samplerate |-> r, frames |-> MaxFrames] : r \in Rates}
Files == GoodFiles \cup {BadFile, NoChannelFile}

\* memory from malloc is not initialised: the fields add_player leaves unset hold either
\* zeroes or some other bit pattern
JunkInfo(j) == [channels |-> j, samplerate |-> j, frames |-> j]
JunkRatio(j) == <<j, 1>>
JunkPointer(j) == IF j = 0 THEN "null" ELSE "wild"

-----------------------------------------------------------------------------
(* Arithmetic of the code *)

\* (sf_count_t)(x * src_ratio): a double product truncated to an integer
MulRatio(x, ratio) == (x * ratio[1]) \div ratio[2]

\* (size_t)(x / src_ratio)
DivRatio(x, ratio) == (x * ratio[2]) \div ratio[1]

\* frames = samplerate * time, truncated to an integer
TimeToFrames(rate, t) == (rate * t) \div TimeScale

\* (float)frames / samplerate
FramesToTime(frames, rate) == (frames * TimeScale) \div rate

\* jack_ringbuffer_create(sz): the size is rounded up to a power of two
RECURSIVE Pow2Ceil(_, _)
Pow2Ceil(sz, p) == IF p >= sz THEN p ELSE Pow2Ceil(sz, 2 * p)

\* whole samples a ring buffer created for n samples can hold: one byte stays unused
RbCapacity(n) == (Pow2Ceil(n * SizeofFloat, 2) - 1) \div SizeofFloat

\* jack_ringbuffer_write_space, in whole samples
WriteSpace(p, rb) == p.rb_cap - Len(rb)

Take(s, n) == SubSeq(s, 1, Min(n, Len(s)))
Drop(s, n) == SubSeq(s, Min(n, Len(s)) + 1, Len(s))

-----------------------------------------------------------------------------
(* get_player: the guarded lookup.  The result is the set of pointers the   *)
(* call can return: NULL, the handle of an occupied slot, or WILD when the  *)
(* word read lies outside g_players.                                       *)

WILD == 0 - 2

InTable(h) == h \in DOMAIN g_players

get_player(h) ==
    IF h > MAX_PLAYERS \/ h < 0 THEN {NULL_PTR}
    ELSE IF ~InTable(h) THEN {NULL_PTR, WILD}
    ELSE IF g_players[h] = NULL THEN {NULL_PTR} ELSE {h}

\* the index get_player(h) reads g_players at, when it reads at all
LookupReads(h) == IF h > MAX_PLAYERS \/ h < 0 THEN {} ELSE {h}

IsPlayer(ptr) == ptr # NULL_PTR /\ ptr # WILD

-----------------------------------------------------------------------------
(* send_notifications: the transport field of the last-notified snapshot    *)
(* is modelled.  The result is the player with its snapshot updated and the *)
(* callback invocation made, if any.  The function takes no lock: the pass  *)
(* of an API call and the pass of the wait loop of file_thread_fn are each  *)
(* two steps, the test and the body, so that one can run inside the other.  *)

NoCall == [fired |-> FALSE, value |-> 0, prev |-> 0]

\* line 151: the test of the transport field
NotifyTest(p, param) ==
    /\ p.file_open = FILE_OPEN
    /\ param \in {"ALL", "TRANSPORT"}
    /\ p.last_play_state # p.play_state

\* lines 152-154: the snapshot is updated and the callback, if registered, is invoked
NotifyBody(p) ==
    [p |-> [p EXCEPT !.last_play_state = p.play_state],
     cb |-> [fired |-> p.cb_fn, value |-> p.play_state, prev |-> p.last_play_state]]

\* a pass that runs without another thread's pass in between
send_notifications(p, param) ==
    IF NotifyTest(p, param) THEN NotifyBody(p) ELSE [p |-> p, cb |-> NoCall]

\* no invocation of the callback
NoCallback == [h |-> 0, param |-> "none", value |-> 0, prev |-> 0]

\* cb_last after a pass on handle h: the invocation it made, if any
Notified(h, n) ==
    IF n.cb.fired THEN [h |-> h, param |-> "TRANSPORT", value |-> n.cb.value, prev |-> n.cb.prev]
    ELSE NoCallback

-----------------------------------------------------------------------------
(* struct AUDIO_PLAYER as add_player leaves it.  j says what the memory     *)
(* malloc returned held.                                                   *)

\* add_player with loop_end left at 0
NewPlayer_no_loop_end(j) ==
    [file_open |-> FILE_CLOSED, file_read_status |-> IDLE, play_state |-> STOPPED,
     file_read_pos |-> 0, loop |-> 0, loop_loaded |-> 0, loop_start |-> 0,
     loop_start_src |-> 0, loop_end |-> 0, loop_end_src |-> 0, gain |-> GainScale,
     track_a |-> 0, track_b |-> 0, input_buffer_size |-> DefaultBufferSize,
     output_buffer_size |-> 0, buffer_count |-> DefaultBufferCount, last_play_state |-> 0,
     sf_info |-> JunkInfo(j), rb |-> JunkPointer(j), ringbuffer_a |-> <<>>,
     ringbuffer_b |-> <<>>, rb_cap |-> 0, play_pos_frames |-> 0, frames |-> 0,
     filename |-> NULL, last_note_played |-> 0, src_ratio |-> JunkRatio(j),
     pitch_shift |-> 0, pitch_bend |-> 0, cb_fn |-> FALSE]

NewPlayer(j) ==
    [file_open |-> FILE_CLOSED,
     file_read_status |-> IDLE,
     play_state |-> STOPPED,
     file_read_pos |-> 0,
     loop |-> 0,
     loop_loaded |-> 0,
     loop_start |-> 0,
     loop_start_src |-> 0,
     loop_end |-> DefaultBufferSize,
     loop_end_src |-> DefaultBufferSize,
     gain |-> GainScale,
     track_a |-> 0,
     track_b |-> 0,
     input_buffer_size |-> DefaultBufferSize,
     output_buffer_size |-> 0,
     buffer_count |-> DefaultBufferCount,
     last_play_state |-> 0,
     sf_info |-> JunkInfo(j),
     rb |-> JunkPointer(j),
     ringbuffer_a |-> <<>>,
     ringbuffer_b |-> <<>>,
     rb_cap |-> 0,
     play_pos_frames |-> 0,
     frames |-> 0,
     filename |-> NULL,
     last_note_played |-> 0,
     src_ratio |-> JunkRatio(j),
     pitch_shift |-> 0,
     pitch_bend |-> 0,
     cb_fn |-> FALSE]

\* the locals of file_thread_fn (lines 205-215) and where the thread is; nWrote is the
\* result of line 392 for the frame being written, loop_seeks a count of the passes of
\* the LOOPING branch since the last wrap of the play position
NoWorker ==
    [thread |-> "none", pc |-> "none", pFile |-> FALSE, pSrcState |-> FALSE,
     nFramesRead |-> 0, buf |-> <<>>, phase |-> 0, src_ratio |-> <<1, 1>>, end_of_input |-> 0,
     nWrote |-> 0, loop_seeks |-> 0]

Idle == [pc |-> "idle", h |-> 0, then |-> "none", file |-> NULL]

\* malloc and jackd deliver, and every allocation is referred to
NoShortage == [short |-> "none", lost |-> {}]

\* what can be short: memory (malloc, jack_ringbuffer_create), either output port
Shortages == {"memory", "port_a", "port_b"}

NoCallYet == [op |-> "none", h |-> 0, look |-> NULL_PTR, ret |-> 0]

NoPeriod == [ran |-> FALSE]

\* on_jack_process is not running.  Inside a period it is past line 653 for the first
\* player ("in": entered says that line 643 found its file open and promote that line
\* 653 found it STARTING with no seek pending) or past line 708 for it ("fade": the test
\* for STOPPING held, the store of line 713 is to come, ob is what the period did so far).
NotInPeriod == [pc |-> "out", entered |-> FALSE, promote |-> FALSE, ob |-> NoPeriod]

NoDemux == [stage |-> "off"]

\* the slots a player is ever put in
PlayerHandles == {0, 1}

\* zynmidicontroller.cpp: the threads that call sendDeviceMidi through the API of the
\* library (selectKnobs, selectPads, enableSession), and the jack thread, which runs
\* onJackProcess
ApiCallers == {"ui1", "ui2"}
JackThread == "jack"
CtrlThreads == ApiCallers \cup {JackThread}

NoMessage == [command |-> 0, value1 |-> 0, value2 |-> 0]

\* zynmidicontroller.cpp lines 61-63 as the library is loaded: the queue empty, the flag
\* false, no thread inside the library
NoController ==
    [g_bMutex |-> FALSE, g_vSendQueue |-> <<>>,
     pc |-> [t \in CtrlThreads |-> "idle"],
     pMsg |-> [t \in CtrlThreads |-> NoMessage],
     it |-> 0, sent |-> <<>>, fault |-> FALSE]

\* lib_init: every slot empty, the samplerate read from jackd
Init ==
    /\ g_players = [i \in 0..(MAX_PLAYERS - 1) |-> NULL]
    /\ g_samplerate \in Rates
    /\ worker = [h \in PlayerHandles |-> NoWorker]
    /\ api = Idle
    /\ call = NoCallYet
    /\ rt = [h \in PlayerHandles |-> NoPeriod]
    /\ cb_last = NoCallback
    /\ crashed = FALSE
    /\ dmx = NoDemux
    /\ res = NoShortage
    /\ period = NotInPeriod
    /\ ctrl = NoController

\* lib_init with jackd at the lowest rate
InitLowRate == Init /\ g_samplerate = 1

-----------------------------------------------------------------------------
(* The API functions as functions of the player they are given *)

\* get_position
get_position_p(p) ==
    IF p.file_open = FILE_OPEN /\ g_samplerate # 0
    THEN FramesToTime(p.play_pos_frames, g_samplerate) ELSE 0

\* set_position, after the lookup
set_position_p(p, time) ==
    IF p.file_open # FILE_OPEN THEN p
    ELSE LET frames == TimeToFrames(g_samplerate, time)
             clamped ==
                 IF p.loop # 0
                 THEN LET f1 == IF frames > p.loop_end_src THEN p.loop_end_src ELSE frames
                      IN  IF f1 < p.loop_start_src THEN p.loop_start_src ELSE f1
                 ELSE IF frames >= p.frames THEN p.frames - 1 ELSE frames
         IN  [p EXCEPT !.play_pos_frames = clamped,
                       !.file_read_status = SEEKING,
                       !.ringbuffer_b = <<>>,
                       !.ringbuffer_a = <<>>]

\* enable_loop, after the lookup
enable_loop_p(p, bLoop) ==
    LET p1 == [p EXCEPT !.loop = bLoop]
    IN  IF bLoop = 0 THEN p1
        ELSE LET p2 == IF g_samplerate # 0 /\ p1.play_pos_frames < p1.loop_start_src
                       THEN set_position_p(p1, (p1.loop_start_src \div g_samplerate) * TimeScale)
                       ELSE p1
                 p3 == IF g_samplerate # 0 /\ p2.play_pos_frames > p2.loop_end_src
                       THEN set_position_p(p2, (p2.loop_end_src \div g_samplerate) * TimeScale)
                       ELSE p2
             IN  IF p3.file_read_status = IDLE
                 THEN [p3 EXCEPT !.file_read_status = LOOPING] ELSE p3

\* set_loop_start_time, after the lookup
set_loop_start_time_p(p, time) ==
    LET frames == TimeToFrames(p.sf_info.samplerate, time)
    IN  IF frames >= p.loop_end THEN p
        ELSE LET p1 == [p EXCEPT !.loop_start = frames,
                                 !.loop_start_src = MulRatio(frames, p.src_ratio)]
             IN  IF p1.play_pos_frames < p1.loop_start_src
                 THEN set_position_p(p1, get_position_p(p1)) ELSE p1

\* get_loop_start_time, after the lookup
get_loop_start_time_p(p) ==
    IF p.sf_info.samplerate = 0 THEN 0 ELSE FramesToTime(p.loop_start, p.sf_info.samplerate)

\* set_loop_end_time, after the lookup
set_loop_end_time_p(p, time) ==
    LET frames == TimeToFrames(p.sf_info.samplerate, time)
    IN  IF frames <= p.loop_start \/ frames >= p.frames THEN p
        ELSE LET p1 == [p EXCEPT !.loop_end = frames,
                                 !.loop_end_src = MulRatio(frames, p.src_ratio)]
             IN  IF p1.play_pos_frames > p1.loop_end_src
                 THEN set_position_p(p1, get_position_p(p1)) ELSE p1

\* get_loop_end_time, after the lookup
get_loop_end_time_p(p) ==
    IF p.sf_info.samplerate = 0 THEN 0 ELSE FramesToTime(p.loop_end, p.sf_info.samplerate)

\* start_playback, before its notification pass (g_jack_client is set by lib_init)
start_playback_p(p) ==
    IF p.file_open = FILE_OPEN /\ p.play_state # PLAYING
    THEN [p EXCEPT !.play_state = STARTING] ELSE p

\* stop_playback, before its notification pass
stop_playback_p(p) ==
    IF p.play_state # STOPPED THEN [p EXCEPT !.play_state = STOPPING] ELSE p

set_gain_unchecked(p, gain) ==
    IF p.file_open # FILE_OPEN THEN p ELSE [p EXCEPT !.gain = gain]

\* set_gain, before its notification pass
set_gain_p(p, gain) ==
    IF p.file_open # FILE_OPEN THEN p
    ELSE IF gain < 0 \/ gain > 2 * GainScale THEN p
    ELSE [p EXCEPT !.gain = gain]

\* get_gain, after the lookup
get_gain_p(p) == IF p.file_open # FILE_OPEN THEN 0 ELSE p.gain

\* set_track_a, before set_position and the notification pass
set_track_a_p(p, track) ==
    IF p.file_open # FILE_OPEN THEN p
    ELSE IF track < p.sf_info.channels
    THEN [p EXCEPT !.track_a = IF p.sf_info.channels = 1 THEN 0 ELSE track]
    ELSE p

\* set_track_b, before set_position and the notification pass
set_track_b_p(p, track) ==
    IF p.file_open # FILE_OPEN THEN p
    ELSE IF track < p.sf_info.channels
    THEN [p EXCEPT !.track_b = IF p.sf_info.channels = 1 THEN 0 ELSE track]
    ELSE p

\* set_buffer_size
set_buffer_size_p(p, size) ==
    IF p.file_open = FILE_CLOSED THEN [p EXCEPT !.input_buffer_size = size] ELSE p

\* set_buffer_count
set_buffer_count_p(p, count) ==
    IF p.file_open = FILE_CLOSED /\ count > 1 THEN [p EXCEPT !.buffer_count = count] ELSE p

\* get_playback_state, after the lookup
get_playback_state_p(p) == IF p.file_open # FILE_OPEN THEN STOPPED ELSE p.play_state

-----------------------------------------------------------------------------
(* API calls that return without blocking.  Each is the whole function:     *)
(* the lookup, the change and the notification pass.                       *)

ApiReady == api.pc = "idle" /\ ~crashed

\* the observations of a step that returns from no call, runs no period, invokes no callback
NoCallStep == call' = NoCallYet
NoPeriodStep == rt' = [h \in PlayerHandles |-> NoPeriod]
NoCallbackStep == cb_last' = NoCallback

\* a call whose lookup returned ptr returns ret
Returned(op, h, ptr, ret) == call' = [op |-> op, h |-> h, look |-> ptr, ret |-> ret]

\* a function dereferences the pointer it read outside the table: it reads and writes
\* whatever object lies there, and the process may or may not survive
WildAccess ==
    /\ crashed' \in BOOLEAN
    /\ (UNCHANGED <<g_players>> /\ NoCallbackStep)

\* a setter: np is the player after the change, param the field its notification pass
\* checks.  When the test of the pass succeeds the call goes on in api_notify.
Setter(op, h, ptr, np, param) ==
    /\ IF IsPlayer(ptr)
       THEN /\ g_players' = [g_players EXCEPT ![ptr] = np]
            /\ crashed' = crashed
            /\ NoCallbackStep
            /\ IF NotifyTest(np, param)
               THEN /\ api' = [pc |-> "notify", h |-> ptr, then |-> op, file |-> NULL]
                    /\ NoCallStep
               ELSE /\ api' = api
                    /\ Returned(op, h, ptr, 0)
       ELSE /\ Returned(op, h, ptr, 0)
            /\ api' = api
            /\ IF ptr = WILD THEN WildAccess ELSE (UNCHANGED <<g_players, crashed>> /\ NoCallbackStep)
    /\ (UNCHANGED <<g_samplerate, worker, dmx, res, period, ctrl>> /\ NoPeriodStep)

\* the body of the notification pass of a setter, and its return
api_notify ==
    /\ ~crashed
    /\ api.pc = "notify"
    /\ LET n == NotifyBody(g_players[api.h])
       IN  /\ g_players' = [g_players EXCEPT ![api.h] = n.p]
           /\ cb_last' = Notified(api.h, n)
    /\ Returned(api.then, api.h, api.h, 0)
    /\ api' = Idle
    /\ (UNCHANGED <<g_samplerate, worker, crashed, dmx, res, period, ctrl>> /\ NoPeriodStep)

\* the player a pointer designates (only read when the pointer is a player)
Deref(ptr) == IF IsPlayer(ptr) THEN g_players[ptr] ELSE NewPlayer(0)

set_gain(h, gain) ==
    /\ ApiReady
    /\ \E ptr \in get_player(h) : Setter("set_gain", h, ptr, set_gain_p(Deref(ptr), gain), "GAIN")

set_position(h, time) ==
    /\ ApiReady
    /\ \E ptr \in get_player(h) :
          Setter("set_position", h, ptr, set_position_p(Deref(ptr), time), "POSITION")

enable_loop(h, bLoop) ==
    /\ ApiReady
    /\ \E ptr \in get_player(h) :
          Setter("enable_loop", h, ptr, enable_loop_p(Deref(ptr), bLoop), "LOOP")

set_loop_start_time(h, time) ==
    /\ ApiReady
    /\ \E ptr \in get_player(h) :
          Setter("set_loop_start_time", h, ptr, set_loop_start_time_p(Deref(ptr), time), "NONE")

set_loop_end_time(h, time) ==
    /\ ApiReady
    /\ \E ptr \in get_player(h) :
          Setter("set_loop_end_time", h, ptr, set_loop_end_time_p(Deref(ptr), time), "NONE")

start_playback(h) ==
    /\ ApiReady
    /\ \E ptr \in get_player(h) :
          Setter("start_playback", h, ptr, start_playback_p(Deref(ptr)), "TRANSPORT")

stop_playback(h) ==
    /\ ApiReady
    /\ \E ptr \in get_player(h) :
          Setter("stop_playback", h, ptr, stop_playback_p(Deref(ptr)), "TRANSPORT")

set_buffer_size(h, size) ==
    /\ ApiReady
    /\ \E ptr \in get_player(h) :
          Setter("set_buffer_size", h, ptr, set_buffer_size_p(Deref(ptr), size), "NONE")

set_buffer_count(h, count) ==
    /\ ApiReady
    /\ \E ptr \in get_player(h) :
          Setter("set_buffer_count", h, ptr, set_buffer_count_p(Deref(ptr), count), "NONE")

\* the getters: the value returned is kept in call.ret
Getter(op, h, ptr, value, neutral) ==
    /\ IF IsPlayer(ptr) THEN Returned(op, h, ptr, value) /\ crashed' = crashed
       ELSE IF ptr = WILD THEN (\E v \in {neutral, value} : Returned(op, h, ptr, v)) /\ crashed' \in BOOLEAN
       ELSE Returned(op, h, ptr, neutral) /\ crashed' = crashed
    /\ (UNCHANGED <<g_players, g_samplerate, worker, api, dmx, res, period, ctrl>> /\ NoPeriodStep /\ NoCallbackStep)

get_gain(h) ==
    /\ ApiReady
    /\ \E ptr \in get_player(h) : Getter("get_gain", h, ptr, get_gain_p(Deref(ptr)), 0)

get_playback_state(h) ==
    /\ ApiReady
    /\ \E ptr \in get_player(h) :
          Getter("get_playback_state", h, ptr, get_playback_state_p(Deref(ptr)), STOPPED)

get_loop_start_time(h) ==
    /\ ApiReady
    /\ \E ptr \in get_player(h) :
          Getter("get_loop_start_time", h, ptr, get_loop_start_time_p(Deref(ptr)), 0)

get_loop_end_time(h) ==
    /\ ApiReady
    /\ \E ptr \in get_player(h) :
          Getter("get_loop_end_time", h, ptr, get_loop_end_time_p(Deref(ptr)), 0)

\* on_jack_samplerate
on_jack_samplerate(nFrames) ==
    /\ ~crashed
    /\ g_samplerate' = IF nFrames # 0 THEN nFrames ELSE g_samplerate
    /\ (UNCHANGED <<g_players, worker, api, crashed, dmx, res, period, ctrl>> /\ NoCallStep /\ NoPeriodStep /\ NoCallbackStep)

\* malloc or jack_port_register begins or ceases to fail
shortage(s) ==
    /\ ~crashed
    /\ res.short # s
    /\ res' = [res EXCEPT !.short = s]
    /\ (UNCHANGED <<g_players, g_samplerate, worker, api, crashed, dmx, period, ctrl>>
          /\ NoCallStep /\ NoPeriodStep /\ NoCallbackStep)

\* add_player: malloc, the defaults, and the two output ports.  Where a port is not
\* registered the function returns 0 with the record still allocated (lines 876-885
\* free nothing; the first port is unregistered when the second fails).
add_player(h) ==
    /\ ApiReady
    /\ IF h >= 0 /\ h < MAX_PLAYERS /\ g_players[h] = NULL
       THEN IF res.short = "memory"
            THEN /\ Returned("add_player", h, NULL_PTR, 0)
                 /\ UNCHANGED <<g_players, res, period, ctrl>>
            ELSE IF res.short \in {"port_a", "port_b"}
            THEN /\ Returned("add_player", h, NULL_PTR, 0)
                 /\ res' = [res EXCEPT !.lost = @ \cup {"player"}]
                 /\ UNCHANGED g_players
            ELSE \E j \in {0, 1} :
                    /\ g_players' = [g_players EXCEPT ![h] = NewPlayer(j)]
                    /\ Returned("add_player", h, h, 1)
                    /\ UNCHANGED res
       ELSE /\ Returned("add_player", h, NULL_PTR, 0)
            /\ UNCHANGED <<g_players, res, period, ctrl>>
    /\ (UNCHANGED <<g_samplerate, worker, api, crashed, dmx, period, ctrl>> /\ NoPeriodStep /\ NoCallbackStep)

-----------------------------------------------------------------------------
(* load, unload and remove_player block the API thread: unload joins the    *)
(* file reader thread, load polls file_open until the thread has left      *)
(* FILE_OPENING.  api holds where the blocked call is.                     *)

\* unload up to pthread_join: stop_playback, then the flag is cleared
unload_begin(p) ==
    LET n == send_notifications(stop_playback_p(p), "TRANSPORT")
    IN  [n EXCEPT !.p = [n.p EXCEPT !.file_open = FILE_CLOSED, !.cb_fn = FALSE]]

\* load from the statement after unload() to pthread_create
load_spawn(p, file) ==
    [p EXCEPT !.track_a = 0, !.track_b = 0, !.filename = file, !.file_open = FILE_OPENING]

\* the locals of file_thread_fn at its start
SpawnedWorker(w) ==
    [w EXCEPT !.thread = "running", !.pc = "open", !.pFile = FALSE, !.pSrcState = FALSE,
              !.nFramesRead = 0, !.buf = <<>>, !.phase = 0, !.end_of_input = 0,
              !.loop_seeks = 0]

\* the call enters unload on an open player and blocks in pthread_join
BeginJoin(h, then, file) ==
    LET n == unload_begin(g_players[h])
    IN  /\ g_players' = [g_players EXCEPT ![h] = n.p]
        /\ cb_last' = Notified(h, n)
        /\ api' = [pc |-> "join", h |-> h, then |-> then, file |-> file]
        /\ (UNCHANGED <<g_samplerate, worker, crashed, dmx, res, period, ctrl>> /\ NoCallStep /\ NoPeriodStep)

\* pthread_create: the thread spawned before must have ended (its pthread_t is overwritten)
Spawn(h, file, p) ==
    /\ worker[h].thread # "running"
    /\ g_players' = [g_players EXCEPT ![h] = load_spawn(p, file)]
    /\ worker' = [worker EXCEPT ![h] = SpawnedWorker(worker[h])]
    /\ api' = [pc |-> "wait_open", h |-> h, then |-> "load", file |-> file]

unload(h) ==
    /\ ApiReady
    /\ \E ptr \in get_player(h) :
          IF IsPlayer(ptr) /\ g_players[ptr].file_open # FILE_CLOSED
          THEN BeginJoin(h, "unload", NULL)
          ELSE /\ Returned("unload", h, ptr, 0)
               /\ IF ptr = WILD THEN WildAccess ELSE (UNCHANGED <<g_players, crashed>> /\ NoCallbackStep)
               /\ (UNCHANGED <<g_samplerate, worker, api, dmx, res, period, ctrl>> /\ NoPeriodStep)

load(h, file) ==
    /\ ApiReady
    /\ \E ptr \in get_player(h) :
          IF IsPlayer(ptr)
          THEN IF g_players[ptr].file_open # FILE_CLOSED
               THEN BeginJoin(h, "load", file)
               ELSE /\ Spawn(h, file, g_players[h])
                    /\ (UNCHANGED <<g_samplerate, crashed, dmx, res, period, ctrl>> /\ NoCallStep /\ NoPeriodStep /\ NoCallbackStep)
          ELSE /\ Returned("load", h, ptr, 0)
               /\ IF ptr = WILD THEN WildAccess ELSE (UNCHANGED <<g_players, crashed>> /\ NoCallbackStep)
               /\ (UNCHANGED <<g_samplerate, worker, api, dmx, res, period, ctrl>> /\ NoPeriodStep)

remove_player(h) ==
    /\ ApiReady
    /\ \E ptr \in get_player(h) :
          IF IsPlayer(ptr)
          THEN IF g_players[ptr].file_open # FILE_CLOSED
               THEN BeginJoin(h, "remove", NULL)
               ELSE /\ g_players' = [g_players EXCEPT ![h] = NULL]
                    /\ Returned("remove_player", h, ptr, 0)
                    /\ (UNCHANGED <<g_samplerate, worker, api, crashed, dmx, res, period, ctrl>> /\ NoPeriodStep /\ NoCallbackStep)
          ELSE /\ Returned("remove_player", h, ptr, 0)
               /\ IF ptr = WILD THEN WildAccess ELSE (UNCHANGED <<g_players, crashed>> /\ NoCallbackStep)
               /\ (UNCHANGED <<g_samplerate, worker, api, dmx, res, period, ctrl>> /\ NoPeriodStep)

\* get_player_count: the slots that are set
get_player_count == Cardinality({i \in DOMAIN g_players : g_players[i] # NULL})

\* pthread_join returns, and the blocked call goes on
join_return ==
    /\ ~crashed
    /\ api.pc = "join"
    /\ worker[api.h].thread = "exited"
    /\ LET h == api.h
           joined == [worker EXCEPT ![h].thread = "joined"]
           p == [g_players[h] EXCEPT !.filename = NULL]
       IN  CASE api.then = "unload" ->
                  /\ g_players' = [g_players EXCEPT ![h] = p]
                  /\ worker' = joined
                  /\ api' = Idle
                  /\ Returned("unload", h, h, 0)
             [] api.then = "remove" ->
                  /\ g_players' = [g_players EXCEPT ![h] = NULL]
                  /\ worker' = joined
                  /\ api' = Idle
                  /\ Returned("remove_player", h, h, 0)
             [] OTHER ->
                  /\ g_players' = [g_players EXCEPT ![h] = load_spawn(p, api.file)]
                  /\ worker' = [worker EXCEPT ![h] = SpawnedWorker(worker[h])]
                  /\ api' = [api EXCEPT !.pc = "wait_open"]
                  /\ NoCallStep
    /\ (UNCHANGED <<g_samplerate, crashed, dmx, res, period, ctrl>> /\ NoPeriodStep /\ NoCallbackStep)

\* load's poll sees file_open leave FILE_OPENING, registers the callback and returns
load_return ==
    /\ ~crashed
    /\ api.pc = "wait_open"
    /\ g_players[api.h].file_open # FILE_OPENING
    /\ LET p == g_players[api.h]
       IN  /\ g_players' = [g_players EXCEPT ![api.h].cb_fn =
                                 IF p.file_open # FILE_CLOSED THEN TRUE ELSE p.cb_fn]
           /\ Returned("load", api.h, api.h, IF p.file_open = FILE_OPEN THEN 1 ELSE 0)
    /\ api' = Idle
    /\ (UNCHANGED <<g_samplerate, worker, crashed, dmx, res, period, ctrl>> /\ NoPeriodStep /\ NoCallbackStep)

-----------------------------------------------------------------------------
(* file_thread_fn, in steps: open, src_new, one pass of the loop body up to *)
(* the wait, the wait for ring buffer space, the demux and write, the exit. *)

Running(h) == ~crashed /\ worker[h].thread = "running"

\* native frame numbers n, n+1, ... of count frames
RECURSIVE FramesFrom(_, _)
FramesFrom(n, count) == IF count <= 0 THEN <<>> ELSE <<n>> \o FramesFrom(n + 1, count - 1)

\* sf_readf_float: frames delivered from position pos when n are asked for
ReadCount(info, pos, n) == IF n <= 0 THEN 0 ELSE Max(0, Min(n, info.frames - pos))

\* sf_seek(pFile, to, SEEK_SET): the new position, or -1 outside the file
SeekResult(info, to) == IF to >= 0 /\ to <= info.frames THEN to ELSE 0 - 1

\* src_process: frames generated from n input frames (all input is used)
SrcGenerated(n, ratio, phase, room) == Min(room, (n * ratio[1] + phase) \div ratio[2])

\* the native frame each generated frame is taken from
SrcOutput(first, count, ratio) == [k \in 1..count |-> first + ((k - 1) * ratio[2]) \div ratio[1]]

\* the ratio as file_thread_fn sets it: below 0.1 it is taken to be 1
OpenRatio(rate) == IF g_samplerate * 10 < rate THEN <<1, 1>> ELSE <<g_samplerate, rate>>

IsUnity(ratio) == ratio[1] = ratio[2]

\* lines 204-251: sf_open, the initial fields, the ring buffers
w_open(h) ==
    /\ Running(h) /\ worker[h].pc = "open"
    /\ LET p == g_players[h]
           file == p.filename
           info == IF file.ok THEN [channels |-> file.channels, samplerate |-> file.samplerate,
                                    frames |-> file.frames]
                   ELSE p.sf_info
           p0 == [p EXCEPT !.sf_info = info, !.rb = "null",
                           !.ringbuffer_a = <<>>, !.ringbuffer_b = <<>>, !.rb_cap = 0]
       IN  IF ~file.ok \/ info.channels < 1
           THEN /\ g_players' = [g_players EXCEPT ![h] = [p0 EXCEPT !.file_open = FILE_CLOSED]]
                /\ worker' = [worker EXCEPT ![h].pc = "exit", ![h].pFile = file.ok]
                /\ crashed' = crashed
           ELSE LET ratio == OpenRatio(info.samplerate)
                    osize == MulRatio(p.input_buffer_size, ratio)
                    p1 == [p0 EXCEPT !.cb_fn = FALSE,
                                     !.last_play_state = NO_PLAY_STATE,
                                     !.play_pos_frames = 0,
                                     !.loop_start = 0,
                                     !.loop_end = info.frames,
                                     !.loop_loaded = 0,
                                     !.file_read_pos = 0,
                                     !.file_read_status = SEEKING,
                                     !.src_ratio = ratio,
                                     !.output_buffer_size = osize]
                IN  IF res.short = "memory"
                    THEN \* jack_ringbuffer_create returns NULL and jack_ringbuffer_mlock,
                         \* given it unchecked (line 247), writes through the null pointer
                         /\ g_players' = [g_players EXCEPT ![h] = p1]
                         /\ worker' = [worker EXCEPT ![h].pc = "mlock", ![h].pFile = TRUE,
                                                     ![h].src_ratio = ratio]
                         /\ crashed' = TRUE
                    ELSE /\ g_players' = [g_players EXCEPT ![h] =
                               [p1 EXCEPT !.rb = "alloc",
                                          !.rb_cap = RbCapacity(osize * p.buffer_count),
                                          !.file_open = FILE_OPEN]]
                         /\ worker' = [worker EXCEPT ![h].pc = "src_new", ![h].pFile = TRUE,
                                                     ![h].src_ratio = ratio]
                         /\ crashed' = crashed
    /\ (UNCHANGED <<g_samplerate, api, dmx, res, period, ctrl>> /\ NoCallStep /\ NoPeriodStep /\ NoCallbackStep)

\* lines 253-271: the fields set after file_open = 2, and src_new, which may fail
w_src_new(h) ==
    /\ Running(h) /\ worker[h].pc = "src_new"
    /\ LET p == g_players[h]
           p1 == [p EXCEPT !.pitch_shift = FScale,
                           !.pitch_bend = BEND_CENTRE,
                           !.frames = MulRatio(p.sf_info.frames, p.src_ratio),
                           !.loop_end_src = MulRatio(p.loop_end, p.src_ratio),
                           !.loop_start_src = MulRatio(p.loop_start, p.src_ratio)]
       IN  \E ok \in BOOLEAN :
              IF ok
              THEN /\ g_players' = [g_players EXCEPT ![h] = p1]
                   /\ worker' = [worker EXCEPT ![h].pc = "loop", ![h].pSrcState = TRUE]
              ELSE /\ g_players' = [g_players EXCEPT ![h] = [p1 EXCEPT !.file_open = FILE_CLOSED]]
                   /\ worker' = [worker EXCEPT ![h].pc = "exit"]
    /\ (UNCHANGED <<g_samplerate, api, crashed, dmx, res, period, ctrl>> /\ NoCallStep /\ NoPeriodStep /\ NoCallbackStep)

\* lines 274-299: a pending SEEKING or LOOPING request is served
ServeSeek(p, w) ==
    IF p.file_read_status = SEEKING
    THEN LET pos == SeekResult(p.sf_info, DivRatio(p.play_pos_frames, p.src_ratio))
         IN  [p |-> [p EXCEPT !.ringbuffer_a = <<>>, !.ringbuffer_b = <<>>,
                              !.loop_loaded = 0,
                              !.file_read_pos = IF pos >= 0 THEN pos ELSE p.file_read_pos,
                              !.file_read_status = LOADING],
              w |-> [w EXCEPT !.phase = 0, !.end_of_input = 0]]
    ELSE IF p.file_read_status = LOOPING
    THEN LET pos == SeekResult(p.sf_info, p.loop_start)
         IN  [p |-> [p EXCEPT !.file_read_pos = IF pos >= 0 THEN pos ELSE p.file_read_pos,
                              !.file_read_status = LOADING,
                              !.loop_loaded = 1],
              w |-> [w EXCEPT !.phase = 0, !.end_of_input = 0,
                              !.loop_seeks = IF @ < 2 THEN @ + 1 ELSE @]]
    ELSE [p |-> p, w |-> w]

\* lines 305-315: the frames asked of the decoder
ReadRequest(p, w) ==
    IF IsUnity(w.src_ratio)
    THEN IF p.loop # 0 /\ p.file_read_pos + p.input_buffer_size > p.loop_end
         THEN p.loop_end - p.file_read_pos
         ELSE p.input_buffer_size
    ELSE p.input_buffer_size

\* lines 301-353: a block is read and, at a ratio other than 1, converted
LoadBlock(p, w) ==
    IF p.file_read_status # LOADING THEN [p |-> p, w |-> w]
    ELSE LET nRead == ReadCount(p.sf_info, p.file_read_pos, ReadRequest(p, w))
             status == IF nRead # 0 THEN LOADING
                       ELSE IF p.loop # 0 /\ p.loop_loaded = 0 THEN LOOPING
                       ELSE IDLE
             eoi == IF nRead # 0 THEN w.end_of_input
                    ELSE IF p.loop # 0 THEN (IF p.loop_loaded = 0 THEN 1 ELSE 0)
                    ELSE 1
             nOut == IF IsUnity(w.src_ratio) THEN nRead
                     ELSE SrcGenerated(nRead, w.src_ratio, w.phase, p.output_buffer_size)
             phase == IF IsUnity(w.src_ratio) THEN w.phase
                      ELSE (nRead * w.src_ratio[1] + w.phase) % w.src_ratio[2]
             buf == IF IsUnity(w.src_ratio) THEN FramesFrom(p.file_read_pos, nRead)
                    ELSE SrcOutput(p.file_read_pos, nOut, w.src_ratio)
         IN  [p |-> [p EXCEPT !.file_read_pos = p.file_read_pos + nRead,
                              !.file_read_status = status],
              w |-> [w EXCEPT !.nFramesRead = nOut, !.buf = buf, !.phase = phase,
                              !.end_of_input = eoi]]

\* lines 273-353: the loop condition and the body down to the wait
w_loop(h) ==
    /\ Running(h) /\ worker[h].pc = "loop"
    /\ IF g_players[h].file_open # FILE_OPEN
       THEN /\ worker' = [worker EXCEPT ![h].pc = "exit"]
            /\ UNCHANGED g_players
       ELSE LET s == ServeSeek(g_players[h], worker[h])
                r == LoadBlock(s.p, s.w)
            IN  /\ g_players' = [g_players EXCEPT ![h] = r.p]
                /\ worker' = [worker EXCEPT ![h] = [r.w EXCEPT !.pc = "wait"]]
    /\ (UNCHANGED <<g_samplerate, api, crashed, dmx, res, period, ctrl>> /\ NoCallStep /\ NoPeriodStep /\ NoCallbackStep)

\* lines 356-358: the condition of the wait loop
MustWait(p, w) ==
    \/ /\ WriteSpace(p, p.ringbuffer_a) < w.nFramesRead
       /\ WriteSpace(p, p.ringbuffer_b) < w.nFramesRead
    \/ p.file_read_status = IDLE

\* the wait loop without its way out
WaitBreaks_never(p) == FALSE

\* lines 362-363: the wait loop is left when the file has been closed
WaitBreaks(p) == p.file_open = FILE_CLOSED

\* lines 356-364: one poll of the wait loop, up to the test of its notification pass
w_wait(h) ==
    /\ Running(h) /\ worker[h].pc = "wait"
    /\ LET p == g_players[h]
       IN  worker' = [worker EXCEPT ![h].pc =
                         IF ~MustWait(p, worker[h]) THEN "write"
                         ELSE IF NotifyTest(p, "ALL") THEN "notify"
                         ELSE IF WaitBreaks(p) THEN "write"
                         ELSE "wait"]
    /\ (UNCHANGED <<g_players, g_samplerate, api, crashed, dmx, res, period, ctrl>> /\ NoCallStep /\ NoPeriodStep /\ NoCallbackStep)

\* lines 152-154 and 360-363: the body of that pass, the sleep and the test of file_open
w_notify(h) ==
    /\ Running(h) /\ worker[h].pc = "notify"
    /\ LET n == NotifyBody(g_players[h])
       IN  /\ g_players' = [g_players EXCEPT ![h] = n.p]
           /\ cb_last' = Notified(h, n)
           /\ worker' = [worker EXCEPT ![h].pc =
                            IF WaitBreaks(n.p) THEN "write" ELSE "wait"]
    /\ (UNCHANGED <<g_samplerate, api, crashed, dmx, res, period, ctrl>> /\ NoCallStep /\ NoPeriodStep)

\* lines 392-397: the legs of one frame are written, leg B first and leg A with what
\* B took
RECURSIVE WriteFrames(_, _, _, _)
WriteFrames(a, b, cap, legs) ==
    IF legs = <<>> THEN [a |-> a, b |-> b]
    ELSE LET wroteB == Len(b) < cap
             wroteA == wroteB /\ Len(a) < cap
         IN  WriteFrames(IF wroteA THEN Append(a, Head(legs).fA) ELSE a,
                         IF wroteB THEN Append(b, Head(legs).fB) ELSE b,
                         cap, Tail(legs))

\* the legs of a block whose samples are told apart by their native frame number only
FrameLegs(buf) == [i \in 1..Len(buf) |-> [fA |-> buf[i], fB |-> buf[i]]]

\* lines 373-374 and 381-382 with every other channel taken
RECURSIVE LegMix_every_channel(_, _, _, _)
LegMix_every_channel(out, sample, track, channels) ==
    IF track >= channels THEN 0
    ELSE (out[sample + track + 1] * LegScale) \div (channels \div 2)
         + LegMix_every_channel(out, sample, track + 1, channels)

\* lines 373-374 and 381-382: every second channel from track on, each divided by half
\* the channel count.  pBufferOut is indexed from 0 in the code and from 1 here.
RECURSIVE LegMix(_, _, _, _)
LegMix(out, sample, track, channels) ==
    IF track >= channels THEN 0
    ELSE (out[sample + track + 1] * LegScale) \div (channels \div 2)
         + LegMix(out, sample, track + 2, channels)

\* lines 367-391: legs A and B of the frame, in 1/LegScale of a sample unit
DemuxFrame(p, out, frame) ==
    LET sample == frame * p.sf_info.channels
    IN  IF p.sf_info.channels > 1
        THEN [fA |-> IF p.track_a < 0 THEN LegMix(out, sample, 0, p.sf_info.channels)
                     ELSE out[sample + p.track_a + 1] * LegScale,
              fB |-> IF p.track_b < 0 THEN LegMix(out, sample, 1, p.sf_info.channels)
                     ELSE out[sample + p.track_b + 1] * LegScale]
        ELSE [fA |-> (out[sample + 1] * LegScale) \div 2,
              fB |-> (out[sample + 1] * LegScale) \div 2]

\* lines 366-398: the legs of the frames of the block, in the order written
Demux(p, out, nFramesRead) == [i \in 1..nFramesRead |-> DemuxFrame(p, out, i - 1)]

\* lines 366-392 for the first frame of the block: its leg B has been written, or not if
\* ring buffer B was full, and nWrote holds what jack_ringbuffer_write returned; leg A is
\* still to be written
w_write_b(h) ==
    /\ Running(h) /\ worker[h].pc = "write"
    /\ Take(worker[h].buf, worker[h].nFramesRead) # <<>>
    /\ LET p == g_players[h]
           wroteB == Len(p.ringbuffer_b) < p.rb_cap
           leg == Head(FrameLegs(Take(worker[h].buf, worker[h].nFramesRead)))
       IN  /\ g_players' = [g_players EXCEPT
                               ![h].ringbuffer_b = IF wroteB THEN Append(@, leg.fB) ELSE @]
           /\ worker' = [worker EXCEPT ![h].pc = "write_a",
                                       ![h].nWrote = IF wroteB THEN SizeofFloat ELSE 0]
    /\ (UNCHANGED <<g_samplerate, api, crashed, dmx, res, period, ctrl>>
          /\ NoCallStep /\ NoPeriodStep /\ NoCallbackStep)

\* lines 366-398 from where the worker is: the whole block, or leg A of its first frame
\* (line 393, with the nWrote of line 392) and the frames after it
WriteBlock(p, w) ==
    LET legs == FrameLegs(Take(w.buf, w.nFramesRead))
    IN  IF w.pc = "write_a"
        THEN WriteFrames(IF w.nWrote # 0 /\ Len(p.ringbuffer_a) < p.rb_cap
                         THEN Append(p.ringbuffer_a, Head(legs).fA) ELSE p.ringbuffer_a,
                         p.ringbuffer_b, p.rb_cap, Tail(legs))
        ELSE WriteFrames(p.ringbuffer_a, p.ringbuffer_b, p.rb_cap, legs)

\* lines 366-400: demux and write of the block, then the notification pass
w_write(h) ==
    /\ Running(h) /\ worker[h].pc \in {"write", "write_a"}
    /\ LET p == g_players[h]
           out == WriteBlock(p, worker[h])
           n == send_notifications([p EXCEPT !.ringbuffer_a = out.a, !.ringbuffer_b = out.b], "ALL")
       IN  /\ g_players' = [g_players EXCEPT ![h] = n.p]
           /\ cb_last' = Notified(h, n)
    /\ worker' = [worker EXCEPT ![h].pc = "loop"]
    /\ (UNCHANGED <<g_samplerate, api, crashed, dmx, res, period, ctrl>> /\ NoCallStep /\ NoPeriodStep)

\* lines 404-423: the thread ends.  The struct may have been freed by remove_player.
w_exit(h) ==
    /\ Running(h) /\ worker[h].pc = "exit"
    /\ worker' = [worker EXCEPT ![h].thread = "exited", ![h].pc = "done",
                                ![h].pFile = FALSE, ![h].pSrcState = FALSE]
    /\ IF g_players[h] = NULL
       THEN /\ crashed' \in BOOLEAN
            /\ UNCHANGED g_players
       ELSE LET p == g_players[h]
            IN  /\ g_players' = [g_players EXCEPT ![h] =
                      [p EXCEPT !.play_state = STOPPED,
                                !.filename = IF worker[h].pFile THEN NULL ELSE p.filename,
                                !.play_pos_frames = 0,
                                !.cb_fn = FALSE,
                                !.rb = IF p.rb = "alloc" THEN "freed" ELSE p.rb,
                                !.ringbuffer_a = <<>>,
                                !.ringbuffer_b = <<>>]]
                /\ crashed' = crashed
    /\ (UNCHANGED <<g_samplerate, api, dmx, res, period, ctrl>> /\ NoCallStep /\ NoPeriodStep /\ NoCallbackStep)

-----------------------------------------------------------------------------
(* on_jack_process: the audio of every open player, then the MIDI events    *)

\* pow(1.059463094359, e) in 1/DScale, rounded at every product
RECURSIVE PowSemitone(_)
PowSemitone(e) ==
    IF e = 0 THEN DScale
    ELSE IF e < 0 THEN LET x == PowSemitone(0 - e) IN (DScale * DScale + x \div 2) \div x
    ELSE (PowSemitone(e - 1) * SEMITONE + DScale \div 2) \div DScale

\* the double narrowed to the float pitch_shift: rounded to 1/FScale
ToFloat(x) == (x * FScale + DScale \div 2) \div DScale

PitchOfNote_inverted(note) == ToFloat(PowSemitone(note - MIDDLE_C))

\* line 743: pitch_shift = pow(1.059463094359, 60 - note)
PitchOfNote(note) == ToFloat(PowSemitone(MIDDLE_C - note))

\* lines 658-675: the pitch-shifted read.  c is [a, b, a_count, r_count, f_count].
RECURSIVE Drain(_, _)
Drain(c, pitch) ==
    IF c.f_count < c.a_count * FScale
    THEN LET c1 == [c EXCEPT !.f_count = c.f_count + pitch,
                             !.a = Drop(c.a, 1), !.b = Drop(c.b, 1),
                             !.r_count = c.r_count + 1]
         IN  IF Len(c1.a) = 0 THEN c1 ELSE Drain(c1, pitch)
    ELSE c

\* lines 658-675: the read with a pitch shift.  The peeks of lines 661-662 store the
\* head of each ring buffer at pOut[a_count], that of B only where that of A succeeded.
RECURSIVE Decimate(_, _, _)
Decimate(c, pitch, nFrames) ==
    IF c.a_count >= nFrames THEN c
    ELSE IF Len(c.a) = 0 THEN c
    ELSE IF Len(c.b) = 0 THEN [c EXCEPT !.outA[c.a_count + 1] = Head(c.a)]
    ELSE LET c1 == Drain([c EXCEPT !.outA[c.a_count + 1] = Head(c.a),
                                   !.outB[c.a_count + 1] = Head(c.b)], pitch)
         IN  Decimate([c1 EXCEPT !.a_count = c1.a_count + 1], pitch, nFrames)

\* lines 677-678: what jack_ringbuffer_read stores in a port buffer out of ring buffer
\* rb when asked for n samples
ReadInto(out, rb, n) == [i \in DOMAIN out |-> IF i <= Min(n, Len(rb)) THEN rb[i] ELSE out[i]]

\* the read at normal speed counted as a whole period whatever the ring buffer held
BulkRead_whole_period(c, nFrames) ==
    LET n == Min(nFrames, Len(c.a))
    IN  [c EXCEPT !.a = Drop(c.a, n), !.b = Drop(c.b, n), !.r_count = nFrames,
                  !.a_count = nFrames,
                  !.outA = ReadInto(c.outA, c.a, n), !.outB = ReadInto(c.outB, c.b, n)]

\* lines 676-681: the read at normal speed
BulkRead(c, nFrames) ==
    LET n == Min(nFrames, Len(c.a))
    IN  [c EXCEPT !.a = Drop(c.a, n), !.b = Drop(c.b, n), !.r_count = n, !.a_count = n,
                  !.outA = ReadInto(c.outA, c.a, n), !.outB = ReadInto(c.outB, c.b, n)]

\* lines 712-713: the factor 1.0 - offset / a_count, in 1/a_count
FadeFactor(offset, a_count) == a_count - offset

\* what a port buffer holds when jack hands it to the callback: anything; here a value
\* that is no sample of a file and not silence
StaleSample == 0 - 1

StaleBuffer(nFrames) == [i \in 1..nFrames |-> StaleSample]

\* lines 685-689: the gain on the samples emitted, in 1/GainScale
ApplyGain(out, a_count, gain) ==
    [i \in DOMAIN out |-> IF i <= a_count THEN out[i] * gain ELSE out[i]]

\* lines 710-713: the fade on the samples emitted, in 1/a_count
ApplyFade(out, a_count) ==
    [i \in DOMAIN out |-> IF i <= a_count THEN out[i] * FadeFactor(i - 1, a_count) ELSE out[i]]

\* the port buffer left as the audio path found it past the samples emitted
Silence_skipped(out, a_count) == out

\* lines 719-720: the port buffer is zeroed from a_count to the end of the period
Silence(out, a_count) == [i \in DOMAIN out |-> IF i > a_count THEN 0 ELSE out[i]]

\* lines 685-720 for one port buffer
Finish(out, a_count, gain, fades) ==
    Silence(IF fades THEN ApplyFade(ApplyGain(out, a_count, gain), a_count)
            ELSE ApplyGain(out, a_count, gain), a_count)

\* lines 694-695: the position after a loop wrap (loop_end_src is not 0)
WrapPosition(pos, loop_start_src, loop_end_src) == (pos % loop_end_src) + loop_start_src

EndOfFile_never(p, pos, eof) == FALSE

\* line 700: the end of the file is reached
EndOfFile(p, pos, eof) == pos >= p.frames \/ eof

\* lines 654-723 for one player, state1 being the transport after line 654.  The
\* result holds the player after the period, what the period did (ob) and whether it
\* divided by a loop_end_src of 0 (fpe); gone is for a struct freed under the callback;
\* outA and outB are the port buffers as the reads of lines 658-681 leave them.
AudioPath(p, nFrames, state1) ==
    LET active == state1 = PLAYING \/ state1 = STOPPING
        c0 == [a |-> p.ringbuffer_a, b |-> p.ringbuffer_b, a_count |-> 0, r_count |-> 0, f_count |-> 0,
               outA |-> StaleBuffer(nFrames), outB |-> StaleBuffer(nFrames)]
        c == IF ~active THEN c0
             ELSE IF p.pitch_shift # FScale THEN Decimate(c0, p.pitch_shift, nFrames)
             ELSE BulkRead(c0, nFrames)
        a_count == Min(c.a_count, nFrames)
        pos == p.play_pos_frames + c.r_count
        eof == p.file_read_status = IDLE /\ Len(c.a) = 0
        looped == active /\ p.loop # 0 /\ (pos >= p.loop_end_src \/ eof)
        ended == active /\ p.loop = 0 /\ EndOfFile(p, pos, eof)
        fpe == looped /\ p.loop_end_src = 0
        pos2 == IF looped
                THEN (IF fpe THEN pos + p.loop_start_src
                      ELSE WrapPosition(pos, p.loop_start_src, p.loop_end_src))
                ELSE IF ended THEN 0 ELSE pos
        state2 == IF ended THEN STOPPING ELSE state1
        state3 == IF state2 = STOPPING THEN STOPPED ELSE state2
        trace == <<p.play_state>>
                 \o (IF state1 # p.play_state THEN <<state1>> ELSE <<>>)
                 \o (IF state2 # state1 THEN <<state2>> ELSE <<>>)
                 \o (IF state3 # state2 THEN <<state3>> ELSE <<>>)
    IN  [p |-> [p EXCEPT !.play_state = state3,
                         !.ringbuffer_a = c.a,
                         !.ringbuffer_b = c.b,
                         !.play_pos_frames = pos2,
                         !.loop_loaded = IF looped THEN 0 ELSE p.loop_loaded,
                         !.file_read_status = IF looped THEN LOOPING
                                              ELSE IF ended THEN SEEKING
                                              ELSE p.file_read_status],
         ob |-> [ran |-> TRUE, active |-> active, a_count |-> a_count, r_count |-> c.r_count,
                 status |-> p.file_read_status, stops |-> state2 = STOPPING,
                 reached |-> pos, eof |-> eof, looped |-> looped, ended |-> ended,
                 trace |-> trace,
                 fade |-> IF state2 = STOPPING
                          THEN [o \in 1..a_count |-> FadeFactor(o - 1, a_count)] ELSE <<>>],
         fpe |-> fpe, gone |-> FALSE, outA |-> c.outA, outB |-> c.outB]

\* line 653: the transport is STARTING and no seek is pending
Promotes(p) == p.play_state = STARTING /\ p.file_read_status # SEEKING

\* lines 653-723 for one player
ProcessAudio(p, nFrames) ==
    AudioPath(p, nFrames, IF Promotes(p) THEN PLAYING ELSE p.play_state)

\* the MIDI events of one period: none, or one event
NoteNumbers == {48, 59, 60, 72}
MidiEvents ==
    {[chan |-> 0, cmd |-> cmd, d1 |-> n, d2 |-> v] :
        cmd \in {NOTE_OFF, NOTE_ON}, n \in NoteNumbers, v \in {0, 100}}
    \cup {[chan |-> 0, cmd |-> PITCH_BEND, d1 |-> 1, d2 |-> 64],
          [chan |-> 1, cmd |-> NOTE_ON, d1 |-> 60, d2 |-> 100]}
EventLists == {<<>>} \cup {<<e>> : e \in MidiEvents}

\* a note-on that starts the player where it is and with what its ring buffers hold
NoteOn_in_place(p, note) ==
    [p EXCEPT !.pitch_shift = PitchOfNote(note),
              !.last_note_played = note,
              !.play_state = STARTING]

\* lines 743-749: the note-on
NoteOn(p, note) ==
    [p EXCEPT !.pitch_shift = PitchOfNote(note),
              !.play_pos_frames = p.loop_start_src,
              !.file_read_status = SEEKING,
              !.ringbuffer_a = <<>>,
              !.ringbuffer_b = <<>>,
              !.last_note_played = note,
              !.play_state = STARTING]

\* lines 736-754 for one event on the player of its channel.  bad says that a ring
\* buffer that is not allocated was reset.
HandleMidi(p, ev) ==
    IF (ev.cmd = NOTE_OFF \/ (ev.cmd = NOTE_ON /\ ev.d2 = 0)) /\ p.last_note_played = ev.d1
    THEN LET n == send_notifications(stop_playback_p(p), "TRANSPORT")
         IN  [p |-> [n.p EXCEPT !.pitch_shift = FScale, !.last_note_played = 0],
              cb |-> n.cb, bad |-> FALSE]
    ELSE IF ev.cmd = NOTE_ON
    THEN [p |-> NoteOn(p, ev.d1), cb |-> NoCall, bad |-> p.rb # "alloc"]
    ELSE IF ev.cmd = PITCH_BEND
    THEN [p |-> [p EXCEPT !.pitch_bend = ev.d1 + 128 * ev.d2], cb |-> NoCall, bad |-> FALSE]
    ELSE [p |-> p, cb |-> NoCall, bad |-> FALSE]

\* lines 641-723 for the player in slot i, from where the callback is: at its start, or,
\* for the first player, past the tests of lines 643 and 653 or past the test of line
\* 708, whose outcome stands whatever the API thread has stored since.  gone says that
\* the struct those tests read has been freed since.
PlayerPeriod(i, nFrames) ==
    IF i = 0 /\ period.pc = "fade"
    THEN IF g_players[i] = NULL
         THEN [p |-> g_players[i], ob |-> NoPeriod, fpe |-> FALSE, gone |-> TRUE]
         ELSE [p |-> [g_players[i] EXCEPT !.play_state = STOPPED],
               ob |-> [period.ob EXCEPT !.trace = <<g_players[i].play_state, STOPPED>>],
               fpe |-> FALSE, gone |-> FALSE]
    ELSE IF i = 0 /\ period.pc = "in"
    THEN IF ~period.entered
         THEN [p |-> g_players[i], ob |-> NoPeriod, fpe |-> FALSE, gone |-> FALSE]
         ELSE IF g_players[i] = NULL
         THEN [p |-> g_players[i], ob |-> NoPeriod, fpe |-> FALSE, gone |-> TRUE]
         ELSE AudioPath(g_players[i], nFrames,
                        IF period.promote THEN PLAYING ELSE g_players[i].play_state)
    ELSE IF g_players[i] # NULL /\ g_players[i].file_open = FILE_OPEN
    THEN ProcessAudio(g_players[i], nFrames)
    ELSE [p |-> g_players[i], ob |-> NoPeriod, fpe |-> FALSE, gone |-> FALSE]

\* the registry after the audio part of the period
AfterAudio(nFrames) == [i \in DOMAIN g_players |-> PlayerPeriod(i, nFrames).p]

Observed(nFrames) == [h \in PlayerHandles |-> PlayerPeriod(h, nFrames).ob]

DividesByZero(nFrames) ==
    \E i \in DOMAIN g_players : PlayerPeriod(i, nFrames).fpe \/ PlayerPeriod(i, nFrames).gone

\* lines 725-785: the events, in order
RECURSIVE AfterMidi(_, _)
AfterMidi(s, evs) ==
    IF evs = <<>> THEN s
    ELSE LET ev == Head(evs)
         IN  IF s.players[ev.chan] = NULL THEN AfterMidi(s, Tail(evs))
             ELSE LET r == HandleMidi(s.players[ev.chan], ev)
                  IN  AfterMidi([players |-> [s.players EXCEPT ![ev.chan] = r.p],
                                 cb |-> IF r.cb.fired
                                        THEN [h |-> ev.chan, param |-> "TRANSPORT",
                                              value |-> r.cb.value, prev |-> r.cb.prev]
                                        ELSE s.cb,
                                 bad |-> s.bad \/ r.bad],
                                Tail(evs))

\* play_pos_frames is a 32-bit counter: the periods are followed while it is within
\* PosLimit, which is beyond every position of a file of MaxFrames frames
PosLimit == 4 * MaxFrames

\* loop_seeks of a worker counts, up to 2, the passes of its LOOPING branch (lines
\* 288-299) since the realtime callback last wrapped the play position (lines 693-697):
\* a record of what has happened, not a variable of the code.  ob is what the period
\* did to each player.
SinceWrap(ob) ==
    [h \in PlayerHandles |->
        IF ob[h].ran /\ ob[h].looped THEN [worker[h] EXCEPT !.loop_seeks = 0] ELSE worker[h]]

\* lines 640-653 for the first player: the callback has begun and has read file_open,
\* play_state and file_read_status of the player in slot 0; it has stored nothing yet
on_jack_process_test ==
    /\ ~crashed
    /\ period.pc = "out"
    /\ period' = [pc |-> "in",
                  entered |-> g_players[0] # NULL /\ g_players[0].file_open = FILE_OPEN,
                  promote |-> /\ g_players[0] # NULL /\ g_players[0].file_open = FILE_OPEN
                              /\ Promotes(g_players[0]),
                  ob |-> NoPeriod]
    /\ (UNCHANGED <<g_players, g_samplerate, worker, api, crashed, dmx, res, ctrl>>
          /\ NoCallStep /\ NoPeriodStep /\ NoCallbackStep)

\* lines 640-708 for the first player, in a period that finds it STOPPING at line 708:
\* the callback has read from the ring buffers and moved the play position, the
\* transport is the STOPPING it found there or stored at line 703, and the fade and the
\* store of STOPPED (lines 710-713) are to come
on_jack_process_fade(nFrames) ==
    /\ ~crashed
    /\ period.pc \in {"out", "in"}
    /\ g_players[0] # NULL /\ g_players[0].play_pos_frames <= PosLimit
    /\ LET r == PlayerPeriod(0, nFrames)
       IN  /\ r.ob.ran /\ r.ob.stops
           /\ ~r.fpe /\ ~r.gone
           /\ g_players' = [g_players EXCEPT ![0] = [r.p EXCEPT !.play_state = STOPPING]]
           /\ period' = [pc |-> "fade", entered |-> TRUE, promote |-> FALSE, ob |-> r.ob]
           /\ worker' = SinceWrap([h \in PlayerHandles |-> IF h = 0 THEN r.ob ELSE NoPeriod])
    /\ (UNCHANGED <<g_samplerate, api, crashed, dmx, res, ctrl>>
          /\ NoCallStep /\ NoPeriodStep /\ NoCallbackStep)

\* the callback from where it is to its end: the whole of it, or what follows line 653
\* for the first player
on_jack_process(nFrames, evs) ==
    /\ ~crashed
    /\ \A i \in DOMAIN g_players :
          g_players[i] # NULL => g_players[i].play_pos_frames <= PosLimit
    /\ LET m == AfterMidi([players |-> AfterAudio(nFrames), cb |-> NoCallback, bad |-> FALSE], evs)
           fault == DividesByZero(nFrames) \/ m.bad
       IN  /\ g_players' = m.players
           /\ cb_last' = m.cb
           /\ rt' = Observed(nFrames)
           /\ IF fault THEN crashed' \in BOOLEAN ELSE crashed' = crashed
    /\ period' = NotInPeriod
    /\ worker' = SinceWrap([h \in PlayerHandles |->
                               IF h = 0 /\ period.pc = "fade"
                               THEN NoPeriod ELSE Observed(nFrames)[h]])
    /\ (UNCHANGED <<g_samplerate, api, dmx, res, ctrl>> /\ NoCallStep)

-----------------------------------------------------------------------------

Next ==
    \/ \E h \in ApiHandles, g \in Gains : set_gain(h, g)
    \/ \E h \in ApiHandles : get_gain(h)
    \/ \E h \in ApiHandles, t \in Times : set_position(h, t)
    \/ \E h \in ApiHandles, b \in {0, 1} : enable_loop(h, b)
    \/ \E h \in ApiHandles, t \in Times : set_loop_start_time(h, t)
    \/ \E h \in ApiHandles, t \in Times : set_loop_end_time(h, t)
    \/ \E h \in ApiHandles : get_loop_start_time(h)
    \/ \E h \in ApiHandles : get_loop_end_time(h)
    \/ \E h \in ApiHandles : start_playback(h)
    \/ \E h \in ApiHandles : stop_playback(h)
    \/ \E h \in ApiHandles : get_playback_state(h)
    \/ \E h \in ApiHandles, size \in BufferSizes : set_buffer_size(h, size)
    \/ \E h \in ApiHandles, count \in BufferCounts : set_buffer_count(h, count)
    \/ \E h \in AddHandles : add_player(h)
    \/ \E h \in ApiHandles : remove_player(h)
    \/ \E h \in ApiHandles, f \in Files : load(h, f)
    \/ \E h \in ApiHandles : unload(h)
    \/ api_notify
    \/ join_return
    \/ load_return
    \/ \E r \in Rates \cup {0} : on_jack_samplerate(r)
    \/ \E s \in Shortages \cup {"none"} : shortage(s)
    \/ \E h \in PlayerHandles : w_open(h)
    \/ \E h \in PlayerHandles : w_src_new(h)
    \/ \E h \in PlayerHandles : w_loop(h)
    \/ \E h \in PlayerHandles : w_wait(h)
    \/ \E h \in PlayerHandles : w_notify(h)
    \/ \E h \in PlayerHandles : w_write_b(h)
    \/ \E h \in PlayerHandles : w_write(h)
    \/ \E h \in PlayerHandles : w_exit(h)
    \/ on_jack_process_test
    \/ on_jack_process_fade(PeriodFrames)
    \/ \E evs \in EventLists : on_jack_process(PeriodFrames, evs)

Spec == Init /\ [][Next]_vars

-----------------------------------------------------------------------------
(* Scenarios: the same actions with the inputs of one group of properties.  *)
(* Every step of a scenario is a step of Next.                              *)

\* the disk thread of a player
WorkerSteps ==
    \E h \in PlayerHandles :
        \/ w_open(h)
        \/ w_src_new(h)
        \/ w_loop(h)
        \/ w_wait(h)
        \/ w_write(h)
        \/ w_exit(h)

\* the bodies of the notification passes that found the transport changed
NotifySteps ==
    \/ api_notify
    \/ \E h \in PlayerHandles : w_notify(h)

\* a player is created, loaded from one of the files, and unloaded
Lifecycle(files) ==
    \/ add_player(0)
    \/ \E f \in files : load(0, f)
    \/ unload(0)
    \/ join_return
    \/ load_return
    \/ WorkerSteps

\* a player is created and a file is loaded into it while it holds none
LoadOnce(files) ==
    \/ add_player(0)
    \/ \E f \in files : g_players[0] # NULL /\ g_players[0].file_open = FILE_CLOSED /\ load(0, f)
    \/ load_return
    \/ WorkerSteps

\* the same with the largest of the small buffers, and two of them
LoadBounded(files) ==
    \/ add_player(0)
    \/ set_buffer_size(0, MaxBuffer)
    \/ set_buffer_count(0, 2)
    \/ \E f \in files :
          /\ g_players[0] # NULL
          /\ g_players[0].file_open = FILE_CLOSED
          /\ g_players[0].input_buffer_size <= MaxBuffer
          /\ g_players[0].buffer_count < DefaultBufferCount
          /\ load(0, f)
    \/ load_return
    \/ WorkerSteps

\* the same with the buffers made small before the file is loaded
LoadSmall(files) ==
    \/ add_player(0)
    \/ \E size \in BufferSizes : set_buffer_size(0, size)
    \/ \E count \in BufferCounts : set_buffer_count(0, count)
    \/ \E f \in files :
          /\ g_players[0] # NULL
          /\ g_players[0].file_open = FILE_CLOSED
          /\ g_players[0].input_buffer_size <= MaxBuffer
          /\ g_players[0].buffer_count < DefaultBufferCount
          /\ load(0, f)
    \/ load_return
    \/ WorkerSteps

\* load and unload cycles, failing loads included, and the transport calls
NextLoad ==
    \/ Lifecycle(Files)
    \/ remove_player(0)
    \/ start_playback(0)
    \/ NotifySteps
    \/ stop_playback(0)

SpecLoad == Init /\ [][NextLoad]_vars

\* a loaded player and the gain calls
NextGain ==
    \/ Lifecycle(GoodFiles)
    \/ \E g \in Gains : set_gain(0, g)
    \/ get_gain(0)

SpecGain == Init /\ [][NextGain]_vars

\* a loaded player plays in a loop while the realtime callback runs
NextLoopPlay ==
    \/ LoadSmall(GoodFiles)
    \/ \E b \in {0, 1} : enable_loop(0, b)
    \/ \E t \in {1, TimeScale, 2 * TimeScale} : set_loop_end_time(0, t)
    \/ start_playback(0)
    \/ NotifySteps
    \/ on_jack_process(PeriodFrames, <<>>)

SpecLoopPlay == Init /\ [][NextLoopPlay]_vars

\* a loaded player is started and plays to its end, or is stopped, while the realtime
\* callback runs
NextStop ==
    \/ Lifecycle(GoodFiles)
    \/ start_playback(0)
    \/ NotifySteps
    \/ stop_playback(0)
    \/ on_jack_process(PeriodFrames, <<>>)

SpecStop == Init /\ [][NextStop]_vars

\* the loop bounds of a loaded player are set and read back
NextLoopBounds ==
    \/ LoadOnce(GoodFiles)
    \/ \E t \in Times : set_loop_start_time(0, t)
    \/ \E t \in Times : set_loop_end_time(0, t)
    \/ get_loop_start_time(0)
    \/ get_loop_end_time(0)

SpecLoopBounds == Init /\ [][NextLoopBounds]_vars

\* the loop bounds of a loaded file while jackd changes its sample rate
NextRate ==
    \/ LoadOnce(GoodFiles)
    \/ \E r \in Rates \cup {0} : on_jack_samplerate(r)
    \/ \E t \in Times : set_loop_start_time(0, t)
    \/ \E t \in Times : set_loop_end_time(0, t)

SpecRate == Init /\ [][NextRate]_vars

\* a player is created and loaded while malloc or jackd may fail
NextShort ==
    \/ \E s \in Shortages \cup {"none"} : shortage(s)
    \/ LoadOnce(GoodFiles)

SpecShort == Init /\ [][NextShort]_vars

\* a player is loaded, played, positioned, given a note and unloaded, in any order
NextRing ==
    \/ Lifecycle({f \in GoodFiles : f.samplerate = 1})
    \/ start_playback(0)
    \/ \E t \in {0, TimeScale} : set_position(0, t)
    \/ NotifySteps
    \/ on_jack_process(PeriodFrames, <<>>)
    \/ on_jack_process(PeriodFrames, <<[chan |-> 0, cmd |-> NOTE_ON, d1 |-> 48, d2 |-> 100]>>)

SpecRing == InitLowRate /\ [][NextRing]_vars

\* a looping player is played and given new positions
NextSeek ==
    \/ LoadBounded({f \in GoodFiles : f.samplerate = 1})
    \/ enable_loop(0, 1)
    \/ start_playback(0)
    \/ \E t \in {0, TimeScale, MaxFrames * TimeScale} : set_position(0, t)
    \/ NotifySteps
    \/ on_jack_process(PeriodFrames, <<>>)

SpecSeek == InitLowRate /\ [][NextSeek]_vars

\* One player whose transport the API thread starts and stops while the realtime
\* callback may be between its test of line 653 and its store of line 654.
NextPromote ==
    \/ LoadBounded({f \in GoodFiles : f.samplerate = 1})
    \/ start_playback(0)
    \/ stop_playback(0)
    \/ \E t \in {0, TimeScale} : set_position(0, t)
    \/ NotifySteps
    \/ on_jack_process_test
    \/ on_jack_process(PeriodFrames, <<>>)

SpecPromote == InitLowRate /\ [][NextPromote]_vars

\* One player that plays while set_position resets its ring buffers, the worker's write
\* of a frame being two ring-buffer writes that the reset may fall between.
NextWrite ==
    \/ LoadBounded({f \in GoodFiles : f.samplerate = 1})
    \/ enable_loop(0, 1)
    \/ start_playback(0)
    \/ \E t \in {0, MaxFrames * TimeScale} : set_position(0, t)
    \/ NotifySteps
    \/ w_write_b(0)
    \/ on_jack_process(PeriodFrames, <<>>)

SpecWrite == InitLowRate /\ [][NextWrite]_vars

\* One player that plays a loop whose start and end are moved.
NextWrap ==
    \/ LoadBounded({f \in GoodFiles : f.samplerate = 1})
    \/ enable_loop(0, 1)
    \/ \E t \in {0, TimeScale} : set_loop_start_time(0, t)
    \/ \E t \in {2 * TimeScale, 3 * TimeScale} : set_loop_end_time(0, t)
    \/ start_playback(0)
    \/ NotifySteps
    \/ on_jack_process(PeriodFrames, <<>>)

SpecWrap == InitLowRate /\ [][NextWrap]_vars

\* One player that plays a loop over the whole file while enable_loop is called again.
NextRequeue ==
    \/ LoadBounded({f \in GoodFiles : f.samplerate = 1})
    \/ \E b \in {0, 1} : enable_loop(0, b)
    \/ start_playback(0)
    \/ NotifySteps
    \/ on_jack_process(PeriodFrames, <<>>)

SpecRequeue == InitLowRate /\ [][NextRequeue]_vars

\* One player that is started, stopped while it plays, and started again, while the
\* realtime callback may be between its test of line 708 and its store of line 713.
\* The worker and the realtime callback keep being scheduled.
ProcessSteps ==
    \/ on_jack_process_fade(PeriodFrames)
    \/ on_jack_process(PeriodFrames, <<>>)

NextStart ==
    \/ LoadBounded({f \in GoodFiles : f.samplerate = 1})
    \/ start_playback(0)
    \/ (g_players[0] # NULL /\ g_players[0].play_state = PLAYING /\ stop_playback(0))
    \/ NotifySteps
    \/ ProcessSteps

SpecStart ==
    /\ InitLowRate /\ [][NextStart]_vars
    /\ WF_vars(WorkerSteps)
    /\ WF_vars(w_notify(0))
    /\ WF_vars(ProcessSteps)
    /\ WF_vars(on_jack_process(PeriodFrames, <<>>))

\* The same with every period running from its first line to its last between two
\* steps of the API thread.
NextStartWhole ==
    \/ LoadBounded({f \in GoodFiles : f.samplerate = 1})
    \/ start_playback(0)
    \/ (g_players[0] # NULL /\ g_players[0].play_state = PLAYING /\ stop_playback(0))
    \/ NotifySteps
    \/ on_jack_process(PeriodFrames, <<>>)

SpecStartWhole ==
    /\ InitLowRate /\ [][NextStartWhole]_vars
    /\ WF_vars(WorkerSteps)
    /\ WF_vars(w_notify(0))
    /\ WF_vars(on_jack_process(PeriodFrames, <<>>))

\* two players: the one in slot 1 is loaded and played, the one in slot 0 is given API
\* calls and notes whether it holds a file or not
NextTwo ==
    \/ \E h \in PlayerHandles : add_player(h)
    \/ \E h \in PlayerHandles, f \in {f \in GoodFiles : f.samplerate = 1} :
          g_players[h] # NULL /\ g_players[h].file_open = FILE_CLOSED /\ load(h, f)
    \/ load_return
    \/ WorkerSteps
    \/ NotifySteps
    \/ start_playback(1)
    \/ set_gain(0, 0)
    \/ on_jack_process(PeriodFrames, <<>>)
    \/ on_jack_process(PeriodFrames, <<[chan |-> 0, cmd |-> NOTE_ON, d1 |-> 48, d2 |-> 100]>>)

SpecTwo == InitLowRate /\ [][NextTwo]_vars

\* loads of every kind of file, over an open file too, and unloads, with no reader of
\* the ring buffers: the worker comes to wait for space or, at the end of the file, idles
NextReturn ==
    \/ add_player(0)
    \/ \E size \in BufferSizes : set_buffer_size(0, size)
    \/ \E count \in BufferCounts : set_buffer_count(0, count)
    \/ \E f \in Files :
          /\ g_players[0] # NULL
          /\ g_players[0].input_buffer_size <= MaxBuffer
          /\ g_players[0].buffer_count < DefaultBufferCount
          /\ load(0, f)
    \/ unload(0)
    \/ join_return
    \/ load_return
    \/ WorkerSteps

\* the threads are scheduled: the worker goes on while it lives, and a blocked call goes
\* on once what it waits for has happened
SpecReturn ==
    /\ Init /\ [][NextReturn]_vars
    /\ WF_vars(WorkerSteps)
    /\ WF_vars(join_return)
    /\ WF_vars(load_return)

\* every kind of API call on every kind of handle, with a player that comes and goes
NextHandles ==
    \/ \E h \in AddHandles : add_player(h)
    \/ \E h \in ApiHandles : remove_player(h)
    \/ \E h \in ApiHandles, f \in {f \in GoodFiles : f.samplerate = 1} : load(h, f)
    \/ \E h \in ApiHandles : unload(h)
    \/ join_return
    \/ load_return
    \/ WorkerSteps
    \/ NotifySteps
    \/ \E h \in ApiHandles, g \in {GainScale} : set_gain(h, g)
    \/ \E h \in ApiHandles : get_gain(h)
    \/ \E h \in ApiHandles : set_loop_end_time(h, TimeScale)
    \/ \E h \in ApiHandles : get_loop_end_time(h)
    \/ \E h \in ApiHandles : start_playback(h)
    \/ \E h \in ApiHandles : stop_playback(h)
    \/ \E h \in ApiHandles : get_playback_state(h)

SpecHandles == Init /\ [][NextHandles]_vars

\* the events of the notes: every note-on, loud and silent, and the note-off of one note
NoteEvents ==
    {[chan |-> 0, cmd |-> NOTE_ON, d1 |-> n, d2 |-> v] : n \in NoteNumbers, v \in {0, 100}}
    \cup {[chan |-> 0, cmd |-> NOTE_OFF, d1 |-> 48, d2 |-> 0]}

\* a player loaded from the file at the lowest rate is given note events, one a period
NextMidi ==
    \/ LoadOnce({f \in GoodFiles : f.samplerate = 1})
    \/ \E ev \in NoteEvents : on_jack_process(PeriodFrames, <<ev>>)
    \/ on_jack_process(PeriodFrames, <<>>)

SpecMidi == Init /\ [][NextMidi]_vars

\* The demultiplexer of file_thread_fn on its own: dmx holds what lines 366-398 read
\* (the open file's channel count, the two track selections, pBufferOut and
\* nFramesRead) and the two ring buffers they write.

\* the part of an open player the demultiplexer and the track setters read
DemuxPlayer(c) ==
    [file_open |-> FILE_OPEN, sf_info |-> [channels |-> c], track_a |-> 0, track_b |-> 0]

\* one frame: a sample of every channel, interleaved
DemuxFrames(c) == [1..c -> Samples]

\* a frame with the same sample in every channel
FlatFrames(c) == {[k \in 1..c |-> x] : x \in Samples}

\* the blocks sf_readf_float leaves in pBufferOut: one frame, or two of which one is flat
DemuxBlocks(c) ==
    DemuxFrames(c)
    \cup {f \o g : f \in DemuxFrames(c), g \in FlatFrames(c)}
    \cup {g \o f : f \in DemuxFrames(c), g \in FlatFrames(c)}

InitDemux ==
    /\ Init
    /\ g_samplerate = 1

OtherThanDemux == <<g_players, g_samplerate, worker, api, call, rt, cb_last, crashed, res, period, ctrl>>

\* a file of c channels has been opened (lines 211-251)
demux_open(c) ==
    /\ dmx.stage = "off"
    /\ dmx' = [stage |-> "idle", p |-> DemuxPlayer(c), pBufferOut |-> <<>>,
               nFramesRead |-> 0, a |-> <<>>, b |-> <<>>]
    /\ UNCHANGED OtherThanDemux

\* set_track_a, between the demultiplexing of two blocks
demux_set_track_a(track) ==
    /\ dmx.stage = "idle"
    /\ dmx' = [dmx EXCEPT !.p = set_track_a_p(dmx.p, track)]
    /\ UNCHANGED OtherThanDemux

\* set_track_b, between the demultiplexing of two blocks
demux_set_track_b(track) ==
    /\ dmx.stage = "idle"
    /\ dmx' = [dmx EXCEPT !.p = set_track_b_p(dmx.p, track)]
    /\ UNCHANGED OtherThanDemux

\* line 309: a block is read into pBufferOut (no rate conversion)
demux_read(block) ==
    /\ dmx.stage = "idle"
    /\ dmx' = [dmx EXCEPT !.stage = "read", !.pBufferOut = block,
                          !.nFramesRead = Len(block) \div dmx.p.sf_info.channels]
    /\ UNCHANGED OtherThanDemux

\* lines 366-398: the block is demultiplexed into the (empty) ring buffers
demux_write ==
    /\ dmx.stage = "read"
    /\ LET out == WriteFrames(dmx.a, dmx.b, dmx.nFramesRead,
                              Demux(dmx.p, dmx.pBufferOut, dmx.nFramesRead))
       IN  dmx' = [dmx EXCEPT !.stage = "written", !.a = out.a, !.b = out.b]
    /\ UNCHANGED OtherThanDemux

\* lines 680-683: the process callback reads everything the ring buffers hold.  What
\* pBufferOut holds is not read again before line 309 overwrites it.
demux_drain ==
    /\ dmx.stage = "written"
    /\ dmx' = [dmx EXCEPT !.stage = "idle", !.a = <<>>, !.b = <<>>,
                          !.pBufferOut = <<>>, !.nFramesRead = 0]
    /\ UNCHANGED OtherThanDemux

NextDemux ==
    \/ \E c \in 1..MaxChannels : demux_open(c)
    \/ \E track \in Tracks : demux_set_track_a(track)
    \/ \E track \in Tracks : demux_set_track_b(track)
    \/ /\ dmx.stage = "idle"
       /\ \E block \in DemuxBlocks(dmx.p.sf_info.channels) : demux_read(block)
    \/ demux_write
    \/ demux_drain

SpecDemux == InitDemux /\ [][NextDemux]_vars

-----------------------------------------------------------------------------
(* Properties *)

OpenPlayer(h) == g_players[h] # NULL /\ g_players[h].file_open = FILE_OPEN

ReachedLoopEnd ==
    /\ OpenPlayer(0)
    /\ rt'[0].ran
    /\ g_players[0].loop # 0
    /\ g_players[0].loop_start = 0 /\ g_players[0].loop_start_src = 0
    /\ rt'[0].active
    /\ rt'[0].reached >= g_players[0].loop_end_src

WrappedIntoLoop ==
    /\ g_players'[0].play_pos_frames >= 0
    /\ g_players'[0].play_pos_frames < g_players[0].loop_end_src

\* C2: with the loop enabled, loop_start = 0 and loop_end = T output-rate frames, at the
\* end of every period in which the play position reached or passed T the play position
\* lies in [0, T).
C2_LoopWrap == [][ReachedLoopEnd => WrappedIntoLoop]_vars

\* the same for every T of at least one output frame
C2_LoopWrapFromOneFrame ==
    [][ReachedLoopEnd /\ g_players[0].loop_end_src >= 1 => WrappedIntoLoop]_vars

\* a period has wrapped the position of a player whose loop end is 0 output frames
C2_ZeroLengthLoop ==
    /\ OpenPlayer(0)
    /\ rt[0].ran /\ rt[0].looped
    /\ g_players[0].loop_start = 0
    /\ g_players[0].loop_end = 1
    /\ g_players[0].loop_end_src = 0

\* the period of this step played the open player in slot 0, whose loop is disabled, to
\* its final frame: the position reached the output frame count, or the reader is IDLE
\* and the ring buffer is empty
PlayedToEnd ==
    /\ OpenPlayer(0)
    /\ rt'[0].ran
    /\ g_players[0].loop = 0
    /\ \/ g_players[0].play_state = PLAYING
       \/ g_players[0].play_state = STARTING /\ g_players[0].file_read_status # SEEKING
    /\ rt'[0].reached >= g_players[0].frames \/ rt'[0].eof

NeverIncreases(fade) == \A o \in 1..(Len(fade) - 1) : fade[o + 1] <= fade[o]

\* C3: with the loop disabled, the period in which the player has played to its final
\* frame takes the transport through PLAYING, STOPPING and STOPPED (within two periods),
\* and the fade factors applied to the samples of a STOPPING period never increase from
\* one sample to the next.
C3_EndOfFileStops ==
    [][/\ PlayedToEnd
          => LET t == rt'[0].trace
             IN  /\ Len(t) >= 3
                 /\ SubSeq(t, Len(t) - 2, Len(t)) = <<PLAYING, STOPPING, STOPPED>>
                 /\ Len(rt'[0].fade) = rt'[0].a_count
       /\ OpenPlayer(0) /\ rt'[0].ran => NeverIncreases(rt'[0].fade)]_vars

\* a period has played a started player to the end of its file and faded two samples
C3_Witness ==
    /\ OpenPlayer(0)
    /\ rt[0].ran /\ rt[0].ended
    /\ rt[0].trace = <<PLAYING, STOPPING, STOPPED>>
    /\ Len(rt[0].fade) >= 2
    /\ g_players[0].play_state = STOPPED

\* unload has just returned on the player in slot 0
UnloadReturned == call.op = "unload" /\ call.look = 0

\* C4: when the unload of a load -> unload cycle has returned, whether the load failed
\* or not, no ring buffer the worker created is still allocated and the worker thread
\* that was spawned has been joined.
C4_NoLeakAfterUnload ==
    UnloadReturned
    => /\ g_players[0].rb # "alloc"
       /\ worker[0].thread \in {"none", "joined"}

\* unload has returned after a load that failed, and the thread of that load has left
\* its function without having been joined
C4_UnjoinedWorker ==
    /\ UnloadReturned
    /\ g_players[0].file_open = FILE_CLOSED
    /\ worker[0].thread = "exited"

\* this step is unload called on the player in slot 0 while its file is closed
UnloadOnClosed ==
    /\ g_players[0] # NULL
    /\ g_players[0].file_open = FILE_CLOSED
    /\ call'.op = "unload" /\ call'.look = 0

\* this step belongs to a stop_playback call on the player in slot 0, whose transport
\* is STOPPED: the call up to the test of its notification pass, or the body of the pass
StopOnStopped ==
    /\ g_players[0] # NULL
    /\ g_players[0].play_state = STOPPED
    /\ \/ /\ api.pc = "idle"
          /\ \/ call'.op = "stop_playback" /\ call'.look = 0
             \/ api'.pc = "notify" /\ api'.then = "stop_playback"
       \/ api.pc = "notify" /\ api.then = "stop_playback" /\ api'.pc = "idle"

\* the callback invoked in the last step carried the value last notified
DuplicateNotification == cb_last.param = "TRANSPORT" /\ cb_last.value = cb_last.prev

\* C5: unload on a player whose file is closed, and stop_playback on a player whose
\* transport is STOPPED, change no field of the player and invoke no callback with the
\* value last notified.
C5_Idempotent ==
    [][UnloadOnClosed \/ StopOnStopped
       => g_players' = g_players /\ ~DuplicateNotification']_vars

\* the part of C5 about notifications alone
C5_NoDuplicateByStop == [][StopOnStopped => ~DuplicateNotification']_vars

\* stop_playback on a STOPPED player has returned after invoking the callback with
\* STOPPED, the value the pass of the worker had notified in between
C5_DuplicateIssued ==
    /\ call.op = "stop_playback" /\ call.look = 0
    /\ g_players[0].play_state = STOPPED
    /\ DuplicateNotification
    /\ cb_last.value = STOPPED

\* C6: in every state of a player with an open file, whatever loads and loop setter
\* calls came before and whatever the resample ratio, loop_start < loop_end and
\* loop_end <= the native frame count of the file.
C6_LoopBoundsOrdered ==
    OpenPlayer(0)
    => /\ g_players[0].loop_start < g_players[0].loop_end
       /\ g_players[0].loop_end <= g_players[0].sf_info.frames

\* set_loop_end_time has put the loop end of an open player past the last native frame
C6_LoopEndPastFile ==
    /\ OpenPlayer(0)
    /\ call.op = "set_loop_end_time"
    /\ g_players[0].loop_end > g_players[0].sf_info.frames

\* two times differ by at most one sample period of a file of the given rate
WithinOneSample(t1, t2, rate) ==
    /\ t1 - t2 <= TimeScale \div rate
    /\ t2 - t1 <= TimeScale \div rate

\* both output-rate bounds are the native bounds times the ratio
SrcBoundsFollow(p) ==
    /\ p.loop_start_src = MulRatio(p.loop_start, p.src_ratio)
    /\ p.loop_end_src = MulRatio(p.loop_end, p.src_ratio)

\* the file of the player in slot 0 is open and its worker has set every field
\* (lines 227-263) it sets on opening
OpenAndSetUp == OpenPlayer(0) /\ worker[0].pc \notin {"open", "src_new"}

\* C7: on an open file, a loop setter called with the time of a bound that keeps
\* loop_start < loop_end <= native frame count makes its getter return that time within
\* one native sample period, and leaves loop_start_src = loop_start x ratio and
\* loop_end_src = loop_end x ratio.  (Stated for calls made once the worker has set the
\* player up, which the claim implies.)
C7_LoopRoundTrip ==
    [][\A t \in Times :
          LET p == g_players[0]
              q == g_players'[0]
              f == TimeToFrames(p.sf_info.samplerate, t)
          IN  /\ set_loop_start_time(0, t) /\ OpenAndSetUp /\ f < p.loop_end
                 => /\ WithinOneSample(get_loop_start_time_p(q), t, p.sf_info.samplerate)
                    /\ SrcBoundsFollow(q)
              /\ set_loop_end_time(0, t) /\ OpenAndSetUp
                   /\ p.loop_start < f /\ f <= p.sf_info.frames
                 => /\ WithinOneSample(get_loop_end_time_p(q), t, p.sf_info.samplerate)
                    /\ SrcBoundsFollow(q)]_vars

\* after a call of set_loop_end_time on a set-up player the loop end is not the file's
\* last bound although some time names a bound in (loop_start, native frame count] that
\* the comparison at line 565 turns down
C7_ValidEndRejected ==
    /\ OpenAndSetUp
    /\ call.op = "set_loop_end_time"
    /\ \E t \in Times :
          LET p == g_players[0]
              f == TimeToFrames(p.sf_info.samplerate, t)
          IN  /\ p.loop_start < f /\ f <= p.sf_info.frames
              /\ f >= p.frames
              /\ ~WithinOneSample(get_loop_end_time_p(set_loop_end_time_p(p, t)), t,
                                  p.sf_info.samplerate)

\* channel k (from 0) of frame i (from 1) of the block in pBufferOut
ChannelOf(i, k) == dmx.pBufferOut[(i - 1) * dmx.p.sf_info.channels + k + 1]

\* a block of a file of four channels has been written to the ring buffers
WroteFourChannels ==
    dmx.stage = "written" /\ dmx.p.sf_info.channels = 4 /\ dmx.nFramesRead > 0

SemitonesUp == <<271, 287, 304, 323, 342, 362, 384, 406, 431, 456, 483, 512>>
SemitonesDown == <<242, 228, 215, 203, 192, 181, 171, 161, 152, 144, 136, 128>>

\* 2^((60 - n)/12) in 1/FScale, for the notes within an octave of middle C
PitchRatio(n) ==
    IF n = 60 THEN FScale
    ELSE IF n < 60 THEN SemitonesUp[60 - n] ELSE SemitonesDown[n - 60]

\* the period carries the note-on of note n with velocity v for the player of slot 0,
\* and the player does not take it for the note-off of the note it plays
NoteOnStep(n, v) ==
    /\ g_players[0] # NULL
    /\ v > 0 \/ g_players[0].last_note_played # n
    /\ g_players'[0].last_note_played = n
    /\ on_jack_process(PeriodFrames, <<[chan |-> 0, cmd |-> NOTE_ON, d1 |-> n, d2 |-> v]>>)
    /\ ~crashed'

\* C9: a note-on with note n sets the pitch ratio of the player to 2^((60 - n)/12):
\* 1.0 for note 60, 2.0 for note 48, 0.5 for note 72.
C9_NoteOnPitch ==
    [][\A n \in NoteNumbers, v \in {0, 100} :
          NoteOnStep(n, v)
          => /\ g_players'[0].pitch_shift = PitchRatio(n)
             /\ n = 60 => g_players'[0].pitch_shift = FScale
             /\ n = 48 => g_players'[0].pitch_shift = 2 * FScale
             /\ n = 72 => 2 * g_players'[0].pitch_shift = FScale]_vars

\* the open player has been started by the note-on of note 48 and plays at twice the rate
C9_Witness ==
    /\ OpenPlayer(0)
    /\ g_players[0].last_note_played = 48
    /\ g_players[0].play_state = STARTING
    /\ g_players[0].pitch_shift = 2 * FScale

\* the handle names no player: it is negative, at or past the pool capacity, or its
\* slot is empty
InvalidHandle(h) == h < 0 \/ h >= MAX_PLAYERS \/ g_players[h] = NULL

\* the calls that give a value of the player back
GetterCalls == {"get_gain", "get_loop_start_time", "get_loop_end_time", "get_playback_state"}

\* C10: a call on a handle that is negative, >= 17 or names an empty slot finds null
\* without reading outside g_players, changes no player and, for a getter, returns the
\* neutral value (0, STOPPED).
C10_InvalidHandleInert ==
    [][call'.op \notin {"none", "add_player"} /\ InvalidHandle(call'.h)
       => /\ call'.look = NULL_PTR
          /\ \A i \in LookupReads(call'.h) : InTable(i)
          /\ g_players' = g_players
          /\ crashed' = crashed
          /\ call'.op \in GetterCalls => call'.ret = 0]_vars

\* a call on the handle MAX_PLAYERS has read the word behind g_players and used it as a
\* player
C10_ReadPastTable ==
    /\ call.h = MAX_PLAYERS
    /\ call.op \in GetterCalls
    /\ call.look = WILD
    /\ \E i \in LookupReads(call.h) : ~InTable(i)

\* the handle is in [0, MAX_PLAYERS) and its slot is empty
FreeSlot(h) == h >= 0 /\ h < MAX_PLAYERS /\ g_players[h] = NULL

\* C11: add_player fails and leaves the registry as it was when the handle is outside
\* [0, 17) or its slot is occupied; when it succeeds the slot holds a new player with
\* the file CLOSED, transport STOPPED, read state IDLE, gain 1.0, a read block of 48000
\* frames, 5 buffers, loop_start 0 and loop_end equal to the read block.
C11_AddPlayer ==
    [][call'.op = "add_player"
       => LET h == call'.h
          IN  /\ ~FreeSlot(h) => call'.ret = 0
              /\ call'.ret = 0 => g_players' = g_players
              /\ call'.ret # 0
                 => /\ g_players'[h] # NULL
                    /\ \A i \in DOMAIN g_players : i # h => g_players'[i] = g_players[i]
                    /\ g_players'[h].file_open = FILE_CLOSED
                    /\ g_players'[h].play_state = STOPPED
                    /\ g_players'[h].file_read_status = IDLE
                    /\ g_players'[h].gain = GainScale
                    /\ g_players'[h].input_buffer_size = 48000
                    /\ g_players'[h].buffer_count = 5
                    /\ g_players'[h].loop_start = 0
                    /\ g_players'[h].loop_end = g_players'[h].input_buffer_size]_vars

\* add_player has been refused on the slot an earlier add_player filled
C11_Witness ==
    /\ call.op = "add_player" /\ call.h = 0 /\ call.ret = 0
    /\ g_players[0] # NULL
    /\ g_players[0].loop_end = g_players[0].input_buffer_size

\* C12: remove_player on an occupied slot returns with the file closed and the worker
\* joined, the slot empty and get_player_count one lower; on a handle that names no
\* player it changes nothing (so a second call has no further effect).
C12_RemovePlayer ==
    [][call'.op = "remove_player"
       => LET h == call'.h
          IN  IF InvalidHandle(h)
              THEN /\ g_players' = g_players
                   /\ worker' = worker
                   /\ crashed' = crashed
                   /\ get_player_count' = get_player_count
              ELSE /\ g_players'[h] = NULL
                   /\ \A i \in DOMAIN g_players : i # h => g_players'[i] = g_players[i]
                   /\ get_player_count' = get_player_count - 1
                   /\ api.pc = "join" => worker'[h].thread = "joined"
                   /\ crashed' = crashed]_vars

\* remove_player on the handle MAX_PLAYERS has used the word behind g_players as a
\* player and ended the process
C12_RemoveBeyondTable ==
    /\ call.op = "remove_player"
    /\ call.h = MAX_PLAYERS
    /\ call.look = WILD
    /\ crashed

\* the same for every handle but MAX_PLAYERS
C12_RemovePlayerInTable ==
    [][call'.op = "remove_player" /\ call'.h # MAX_PLAYERS
       => LET h == call'.h
          IN  IF InvalidHandle(h)
              THEN g_players' = g_players /\ worker' = worker /\ crashed' = crashed
              ELSE /\ g_players'[h] = NULL
                   /\ get_player_count' = get_player_count - 1
                   /\ api.pc = "join" => worker'[h].thread = "joined"
                   /\ crashed' = crashed]_vars

\* the file the pending load was given cannot be opened or has no channel
LoadOfBadFile ==
    /\ api.pc = "wait_open"
    /\ ~api.file.ok \/ api.file.channels < 1

\* C13: when the decoder cannot open the file or reports fewer than one channel, load
\* returns failure with the open-state CLOSED, the worker out of its function and no
\* ring buffer for the player.
C13_FailedLoad ==
    [][call'.op = "load" /\ LoadOfBadFile
       => /\ call'.ret = 0
          /\ g_players'[api.h].file_open = FILE_CLOSED
          /\ g_players'[api.h].rb # "alloc"
          /\ worker'[api.h].thread # "running"]_vars

\* load has reported the failure of sf_open while its worker is still on its way out
C13_WorkerStillRunning ==
    /\ call.op = "load" /\ call.ret = 0
    /\ g_players[0] # NULL /\ g_players[0].file_open = FILE_CLOSED
    /\ worker[0].thread = "running" /\ worker[0].pc = "exit"
    /\ ~worker[0].pFile

\* the same without the worker having left its function
C13_FailedLoadReported ==
    [][call'.op = "load" /\ LoadOfBadFile
       => /\ call'.ret = 0
          /\ g_players'[api.h].file_open = FILE_CLOSED
          /\ g_players'[api.h].rb # "alloc"]_vars

TouchedBy(h) ==
    \/ call'.op # "none" /\ call'.h = h
    \/ api'.pc # "idle" /\ api'.h = h /\ api' # api
    \/ worker'[h] # worker[h]

\* player o after a period in which no MIDI event is for it
OwnPeriod(o) ==
    IF g_players[o] # NULL /\ g_players[o].file_open = FILE_OPEN
    THEN ProcessAudio(g_players[o], PeriodFrames).p ELSE g_players[o]

\* what is done to or for the player in slot 0 leaves the player in slot 1 to itself
PlayerOneUntouched ==
    /\ TouchedBy(0) => g_players'[1] = g_players[1] /\ worker'[1] = worker[1]
    /\ ~TouchedBy(1) => g_players'[1] = g_players[1] \/ g_players'[1] = OwnPeriod(1)

\* C15: an API call or MIDI event for handle h, and the realtime processing and the
\* worker of player h, leave every field of every other player as it was: here h = 0,
\* the other player is in slot 1 and it goes on existing, no step ends the process.
C15_OthersUntouched ==
    [][PlayerOneUntouched /\ crashed' = crashed]_vars

\* the same as long as the process lives
C15_UntouchedWhileAlive ==
    [][~crashed' => PlayerOneUntouched]_vars

\* the process has ended in a period that brought a note for the player in slot 0, which
\* never held a file, while the player in slot 1 was playing
C15_PlayingPlayerLost ==
    /\ crashed
    /\ g_players[0] # NULL /\ g_players[0].rb # "alloc" /\ g_players[0].last_note_played = 48
    /\ OpenPlayer(1) /\ g_players[1].play_state = PLAYING

\* the stored ratio is the output rate over the native rate of the file, or 1 where
\* that quotient is not positive
RatioOfRates(p) ==
    IF g_samplerate <= 0 THEN IsUnity(p.src_ratio)
    ELSE p.src_ratio[1] * p.sf_info.samplerate = g_samplerate * p.src_ratio[2]

\* C16: for a player with an open file, whatever was called before, changes of the
\* output rate by on_jack_samplerate included, the resample ratio is the output rate
\* over the native rate and loop_start_src and loop_end_src are loop_start and loop_end
\* times that ratio.
C16_RatioFollowsRate ==
    OpenAndSetUp => /\ RatioOfRates(g_players[0])
                    /\ g_players[0].loop_start_src
                          = MulRatio(g_players[0].loop_start, <<g_samplerate, g_players[0].sf_info.samplerate>>)
                    /\ g_players[0].loop_end_src
                          = MulRatio(g_players[0].loop_end, <<g_samplerate, g_players[0].sf_info.samplerate>>)

\* jackd has changed its rate while a file was open, and the player still has the ratio
\* and the output-rate loop end of the rate the file was opened at
C16_StaleRatio ==
    /\ OpenAndSetUp
    /\ g_players[0].src_ratio[1] # g_samplerate
    /\ g_players[0].src_ratio[2] = g_players[0].sf_info.samplerate
    /\ g_players[0].loop_end_src = MulRatio(g_players[0].loop_end, g_players[0].src_ratio)
    /\ g_players[0].loop_end_src
          # MulRatio(g_players[0].loop_end, <<g_samplerate, g_players[0].sf_info.samplerate>>)

\* the output-rate bounds are the native bounds times the ratio the player has stored
C16_BoundsFollowStoredRatio ==
    OpenAndSetUp => SrcBoundsFollow(g_players[0])

\* on_jack_samplerate changes nothing of a player
C16_RateChangeLeavesPlayers ==
    [][g_samplerate' # g_samplerate => g_players' = g_players]_vars

\* add_player has returned 0 for a free slot of the table
AddPlayerFailed == call'.op = "add_player" /\ call'.ret = 0 /\ FreeSlot(call'.h)

\* the worker of the player in slot 0 passes lines 227-251 while no memory is to be had
RingBuffersRefused ==
    /\ res.short = "memory"
    /\ worker[0].pc = "open" /\ worker'[0].pc # "open"
    /\ g_players[0].filename.ok /\ g_players[0].filename.channels >= 1

\* C17: when a resource is exhausted the operation fails and leaves no partial state:
\* an add_player that finds no output port leaves the slot empty and nothing of what
\* it allocated (the player record, the first port); a load whose ring buffers cannot
\* be allocated ends with the file CLOSED, no ring buffer and the worker on its way out.
C17_NothingLeftBehind ==
    [][/\ AddPlayerFailed => g_players'[call'.h] = NULL /\ res'.lost = res.lost
       /\ RingBuffersRefused => /\ ~crashed'
                                /\ g_players'[0].file_open = FILE_CLOSED
                                /\ g_players'[0].rb # "alloc"
                                /\ worker'[0].pc = "exit"]_vars

\* add_player has returned 0 because a port was not registered, the slot is empty, and
\* the record it allocated is referred to by nothing
C17_RecordLost ==
    /\ call.op = "add_player" /\ call.ret = 0
    /\ res.short \in {"port_a", "port_b"}
    /\ g_players[call.h] = NULL
    /\ "player" \in res.lost

\* the worker has gone into jack_ringbuffer_mlock with the null pointer it was given
\* for a ring buffer, and load has not returned
C17_LoadCutShort ==
    /\ crashed
    /\ worker[0].pc = "mlock" /\ g_players[0].rb = "null"
    /\ api.pc # "idle"

\* an add_player that fails leaves the slot empty, and one that fails for want of
\* memory leaves nothing allocated
C17_SlotStaysEmpty ==
    [][AddPlayerFailed => /\ g_players'[call'.h] = NULL
                          /\ res.short = "memory" => res'.lost = res.lost]_vars

\* the offsets within a frame that lines 371-385 read for a leg whose track is stored:
\* every second channel from first for a negative track, else the track itself
LegReads(track, first, channels) ==
    IF track < 0 THEN {c \in 0..(channels - 1) : c % 2 = first} ELSE {track}

\* the offsets within a frame the demultiplexer reads for the player (lines 370-390)
DemuxReads(p) ==
    IF p.sf_info.channels > 1
    THEN LegReads(p.track_a, 0, p.sf_info.channels) \cup LegReads(p.track_b, 1, p.sf_info.channels)
    ELSE {0}

\* C18: with a file of n channels open, set_track_a and set_track_b given an index
\* outside -1 .. n-1 leave the selection as it was: the stored track of each leg is in
\* -1 .. n-1 and the demultiplexer reads no channel outside the frame.
C18_TrackInRange ==
    dmx.stage # "off"
    => /\ dmx.p.track_a \in (0 - 1)..(dmx.p.sf_info.channels - 1)
       /\ dmx.p.track_b \in (0 - 1)..(dmx.p.sf_info.channels - 1)
       /\ \A c \in DemuxReads(dmx.p) : c >= 0 /\ c < dmx.p.sf_info.channels

\* a block has been demultiplexed with a stored track below -1
C18_TrackBelowMix ==
    /\ dmx.stage = "written"
    /\ dmx.p.sf_info.channels > 1
    /\ dmx.p.track_a < 0 - 1 \/ dmx.p.track_b < 0 - 1

\* no stored track is beyond the last channel, and no read leaves the frame
C18_ReadsWithinFrame ==
    dmx.stage # "off"
    => /\ dmx.p.track_a < dmx.p.sf_info.channels
       /\ dmx.p.track_b < dmx.p.sf_info.channels
       /\ \A c \in DemuxReads(dmx.p) : c >= 0 /\ c < dmx.p.sf_info.channels

\* the legal value nearest to x among lo .. hi
NearestLegal(x, lo, hi) == Max(lo, Min(x, hi))

\* set_loop_start_time(0, t) is called on the open file with a frame number not below loop_end
IllegalStart(t) ==
    /\ OpenAndSetUp
    /\ TimeToFrames(g_players[0].sf_info.samplerate, t) >= g_players[0].loop_end
    /\ set_loop_start_time(0, t)

\* set_loop_end_time(0, t) is called on the open file with a frame number not above
\* loop_start, or beyond the native frames of the file
IllegalEnd(t) ==
    /\ OpenAndSetUp
    /\ \/ TimeToFrames(g_players[0].sf_info.samplerate, t) <= g_players[0].loop_start
       \/ TimeToFrames(g_players[0].sf_info.samplerate, t) > g_players[0].sf_info.frames
    /\ set_loop_end_time(0, t)

\* C19: set_loop_start_time and set_loop_end_time given a value that would break
\* loop_start < loop_end <= native frame count store the nearest legal value, they do
\* not leave the bound as it was.
C19_IllegalValueClamped ==
    [][\A t \in Times :
          /\ IllegalStart(t) => g_players'[0].loop_start = g_players[0].loop_end - 1
          /\ IllegalEnd(t) =>
                g_players'[0].loop_end
                   = NearestLegal(TimeToFrames(g_players[0].sf_info.samplerate, t),
                                  g_players[0].loop_start + 1, g_players[0].sf_info.frames)]_vars

\* a start not below loop_end, and an end not above loop_start or not below the frame
\* count at the output rate, leave the bound as it was
C19_IllegalValueIgnored ==
    [][\A t \in Times :
          /\ IllegalStart(t) => g_players'[0].loop_start = g_players[0].loop_start
          /\ (IllegalEnd(t) /\ (\/ TimeToFrames(g_players[0].sf_info.samplerate, t)
                                     <= g_players[0].loop_start
                                \/ TimeToFrames(g_players[0].sf_info.samplerate, t)
                                     >= g_players[0].frames))
                => g_players'[0].loop_end = g_players[0].loop_end]_vars

\* the period of this step handles a note-on for the player in slot h, which resets
\* both ring buffers (lines 746-747)
NoteOnResets(h) ==
    /\ g_players[h] # NULL
    /\ rt' # rt \/ g_players' # g_players \/ crashed' # crashed
    /\ call' = NoCallYet /\ api' = api /\ worker' = worker
    /\ g_players'[h] # NULL
    /\ g_players'[h].last_note_played = 48 /\ g_players[h].last_note_played = 0

\* the audio path of this step's period reads the ring buffers of the player in slot h
AudioPathReads(h) == rt'[h].ran

\* set_position returns in this step having reset the ring buffers of the player in
\* slot h (lines 509-510)
SetPositionResets(h) ==
    /\ call'.op = "set_position" /\ call'.h = h
    /\ g_players[h] # NULL /\ g_players[h].file_open = FILE_OPEN

\* C20: whenever the realtime callback (audio path, note-on) or set_position reads,
\* peeks or resets the ring buffers of a player, they are allocated: not before the
\* worker made them, not after it freed them on unload, not on a player that never
\* held a file.
C20_RingBufferAllocated ==
    [][\A h \in PlayerHandles :
          NoteOnResets(h) \/ AudioPathReads(h) \/ SetPositionResets(h)
          => g_players[h].rb = "alloc"]_vars

\* a note-on has reset the ring buffers of a player whose worker had freed them on unload
C20_ResetAfterFree ==
    /\ g_players[0] # NULL
    /\ g_players[0].rb = "freed"
    /\ g_players[0].file_open = FILE_CLOSED
    /\ worker[0].thread = "joined"
    /\ g_players[0].last_note_played = 48 /\ g_players[0].play_state = STARTING

\* a note-on has reset the ring buffers of a player that never held a file
C20_ResetNeverOpened ==
    /\ g_players[0] # NULL
    /\ g_players[0].rb \in {"null", "wild"}
    /\ worker[0].thread = "none"
    /\ g_players[0].last_note_played = 48 /\ g_players[0].play_state = STARTING

\* the audio path and set_position, which test the open-state first, find the ring
\* buffers allocated
C20_TestedAccessAllocated ==
    [][\A h \in PlayerHandles :
          AudioPathReads(h) \/ SetPositionResets(h) => g_players[h].rb = "alloc"]_vars

\* set_position, on the API thread, resets in this step the ring buffers of the open
\* player in slot h (lines 509-510), whether or not its notification pass is still to come
ApiResets(h) ==
    /\ g_players[h] # NULL /\ g_players[h].file_open = FILE_OPEN
    /\ \/ call'.op = "set_position" /\ call'.h = h /\ api.pc = "idle"
       \/ api.pc = "idle" /\ api'.pc = "notify" /\ api'.then = "set_position" /\ api'.h = h

\* the worker of player h has left the wait loop with a block to write and is in the
\* loop of lines 366-398 that writes it to the ring buffers
WorkerWrites(h) ==
    /\ worker[h].thread = "running" /\ worker[h].pc = "write"
    /\ worker[h].nFramesRead > 0

\* C21: each ring buffer has one producer and one consumer: a reset of it by
\* set_position on the API thread or by the note-on handler on the realtime thread
\* never runs while the worker is writing the same buffer.
C21_ResetApartFromWrite ==
    [][\A h \in PlayerHandles :
          ApiResets(h) \/ (NoteOnResets(h) /\ g_players[h].file_open = FILE_OPEN)
          => ~WorkerWrites(h)]_vars

\* set_position has reset the ring buffers of the open player while its worker was in
\* the loop that writes a block to them
C21_ResetUnderWriter ==
    /\ call.op = "set_position" /\ call.h = 0
    /\ OpenPlayer(0)
    /\ g_players[0].file_read_status = SEEKING
    /\ g_players[0].ringbuffer_a = <<>>
    /\ WorkerWrites(0)

\* the note-on handler has reset them in a period that came while the worker was there
C21_NoteUnderWriter ==
    /\ OpenPlayer(0)
    /\ g_players[0].last_note_played = 48 /\ g_players[0].play_state = STARTING
    /\ rt[0].ran
    /\ WorkerWrites(0)

\* the open player in slot 0 has a seek pending
SeekPending == OpenPlayer(0) /\ g_players[0].file_read_status = SEEKING

\* this step is the worker's pass over lines 274-353 for the player in slot 0, and it
\* leaves the player as serving the pending seek leaves it: ring buffers reset, the
\* decoder at play_pos_frames / src_ratio, and the first block read from there
SeekServed ==
    /\ worker[0].pc = "loop" /\ worker'[0].pc = "wait"
    /\ LET s == ServeSeek(g_players[0], worker[0])
       IN  /\ s.p.ringbuffer_a = <<>> /\ s.p.ringbuffer_b = <<>>
           /\ s.p.file_read_status = LOADING
           /\ s.p.file_read_pos = DivRatio(g_players[0].play_pos_frames, g_players[0].src_ratio)
           /\ g_players'[0] = LoadBlock(s.p, s.w).p

\* the requested position is one of the file
PositionInFile ==
    /\ g_players[0].play_pos_frames >= 0
    /\ DivRatio(g_players[0].play_pos_frames, g_players[0].src_ratio) <= g_players[0].sf_info.frames

\* C22: a seek request is honoured: once set_position or a note-on has set the read
\* state to SEEKING it stays SEEKING until the worker serves it (resets both ring
\* buffers, seeks the decoder to play position / ratio, goes to LOADING); no write of
\* LOADING, IDLE or LOOPING by the worker or the realtime callback replaces it before.
C22_SeekHonoured ==
    [][SeekPending /\ PositionInFile
          /\ g_players'[0] # NULL /\ g_players'[0].file_open = FILE_OPEN
          /\ g_players'[0].file_read_status # SEEKING
       => SeekServed]_vars

\* a period of the realtime callback found the read state SEEKING and left it LOOPING:
\* the position set_position had asked for is replaced by the wrapped one
C22_SeekOverwritten ==
    /\ OpenPlayer(0)
    /\ rt[0].ran /\ rt[0].status = SEEKING /\ rt[0].looped
    /\ g_players[0].file_read_status = LOOPING

\* the worker takes the read state from SEEKING only by serving the seek, where the
\* position asked for is one of the file
C22_WorkerServesSeek ==
    [][SeekPending /\ PositionInFile /\ worker'[0] # worker[0] /\ g_players'[0] # NULL
          /\ g_players'[0].file_open = FILE_OPEN
          /\ g_players'[0].file_read_status # SEEKING
       => SeekServed]_vars

\* the open player in slot 0 has a stop pending
StopPending == OpenPlayer(0) /\ g_players[0].play_state = STOPPING

\* start_playback stores STARTING in this step
StartStored ==
    /\ api.pc = "idle"
    /\ \/ call'.op = "start_playback"
       \/ api'.pc = "notify" /\ api'.then = "start_playback"

\* this step is a realtime period from its first line to its last
CompletePeriod == period.pc = "out" /\ rt'[0].ran

\* C23: a stop request is never lost: once the transport of an open player is STOPPING,
\* and unless start_playback stores STARTING after it, no step takes the transport
\* anywhere but to STOPPED, and the next realtime period that runs from its first line
\* takes it there, however stop_playback falls between lines 653 and 654 of a period.
C23_StopNeverLost ==
    [][StopPending /\ ~StartStored /\ g_players'[0] # NULL
          /\ g_players'[0].file_open = FILE_OPEN
       => /\ g_players'[0].play_state \in {STOPPING, STOPPED}
          /\ (CompletePeriod => g_players'[0].play_state = STOPPED)]_vars

\* a period that had found the transport STARTING at line 653 stored PLAYING at line 654
\* over the STOPPING that stop_playback had stored in between, and played on
C23_StopOverwritten ==
    /\ OpenPlayer(0)
    /\ rt[0].ran /\ rt[0].trace = <<STOPPING, PLAYING>>
    /\ g_players[0].play_state = PLAYING

\* a period that finds the transport STOPPING at line 653 leaves it STOPPED
C23_StopServedByWholePeriod ==
    [][StopPending /\ CompletePeriod /\ g_players'[0] # NULL
       => g_players'[0].play_state = STOPPED]_vars

\* the transport of the player in slot 0 becomes PLAYING in this step
EntersPlaying ==
    /\ g_players[0] # NULL /\ g_players'[0] # NULL
    /\ g_players[0].play_state # PLAYING
    /\ g_players'[0].play_state = PLAYING

\* C27: the transport enters PLAYING only from STARTING, only in a step of the realtime
\* callback, and only in a period that found no seek pending; nothing takes STOPPED or
\* STOPPING straight to PLAYING.
C27_PlayingOnlyFromStarting ==
    [][EntersPlaying
       => /\ g_players[0].play_state = STARTING
          /\ rt'[0].ran
          /\ rt'[0].status # SEEKING]_vars

\* the store of line 654 has replaced a STOPPING by PLAYING
C27_PlayingFromStopping ==
    /\ OpenPlayer(0)
    /\ rt[0].ran /\ rt[0].active
    /\ Head(rt[0].trace) = STOPPING
    /\ g_players[0].play_state = PLAYING

\* it is always the realtime callback that stores PLAYING, and a period that runs from
\* its first line stores it over STARTING and with no seek pending
C27_WholePeriodPromotes ==
    [][EntersPlaying
       => /\ rt'[0].ran
          /\ period.pc = "out" => g_players[0].play_state = STARTING
                                   /\ g_players[0].file_read_status # SEEKING]_vars

\* the worker of the open player in slot 0 is at the top of its loop, and the pass it is
\* about to make reads a block with loop enabled
LoopedRead ==
    /\ Running(0) /\ worker[0].pc = "loop"
    /\ OpenPlayer(0)
    /\ g_players[0].loop # 0
    /\ ServeSeek(g_players[0], worker[0]).p.file_read_status = LOADING

\* the player and the worker at line 301 of that pass
AtRead == ServeSeek(g_players[0], worker[0])

\* C24: with loop enabled, at a resample ratio of 1.0 or not, and whatever
\* set_loop_end_time has stored during playback, no read of the worker crosses loop_end:
\* the frames it asks of the decoder are never negative and never more than
\* loop_end - file_read_pos, so that after the read file_read_pos <= loop_end.
C24_ReadWithinLoop ==
    [][LoopedRead /\ worker'[0].pc = "wait"
       => /\ ReadRequest(AtRead.p, AtRead.w) >= 0
          /\ ReadRequest(AtRead.p, AtRead.w) <= AtRead.p.loop_end - AtRead.p.file_read_pos
          /\ g_players'[0].file_read_pos <= g_players'[0].loop_end]_vars

\* at a ratio other than 1.0 the worker is about to read a whole input buffer from a
\* position short of loop_end, and the file has the frames to take it past loop_end
C24_RequestPastLoopEnd ==
    /\ LoopedRead
    /\ ~IsUnity(worker[0].src_ratio)
    /\ AtRead.p.file_read_pos <= AtRead.p.loop_end
    /\ ReadCount(AtRead.p.sf_info, AtRead.p.file_read_pos, ReadRequest(AtRead.p, AtRead.w))
          > AtRead.p.loop_end - AtRead.p.file_read_pos

\* at a ratio of 1.0 and with loop_end not behind the read position the request is
\* clamped to loop_end
C24_UnityReadClamped ==
    [][LoopedRead /\ worker'[0].pc = "wait" /\ IsUnity(worker[0].src_ratio)
          /\ AtRead.p.file_read_pos <= AtRead.p.loop_end
       => /\ ReadRequest(AtRead.p, AtRead.w) >= 0
          /\ g_players'[0].file_read_pos <= g_players'[0].loop_end]_vars

\* set_loop_end_time has put loop_end behind the read position and the worker, at a
\* ratio of 1.0, is about to ask for loop_end - file_read_pos frames, a negative number
C24_NegativeRequest ==
    /\ LoopedRead
    /\ IsUnity(worker[0].src_ratio)
    /\ ReadRequest(AtRead.p, AtRead.w) < 0

\* the worker of the open player in slot 0 has left the wait loop and is about to write
\* the first sample of a block
StartsWriting ==
    /\ Running(0) /\ worker[0].pc = "write"
    /\ OpenPlayer(0)
    /\ worker[0].nFramesRead > 0

\* C25: whenever the worker starts writing a block of n samples while the file is open,
\* ring buffer A and ring buffer B each have room for all n of them.
C25_RoomForBlock ==
    StartsWriting
    => /\ WriteSpace(g_players[0], g_players[0].ringbuffer_a) >= worker[0].nFramesRead
       /\ WriteSpace(g_players[0], g_players[0].ringbuffer_b) >= worker[0].nFramesRead

\* the worker starts writing a block that ring buffer B has room for and ring buffer A
\* has not
C25_RoomInOneOnly ==
    /\ StartsWriting
    /\ WriteSpace(g_players[0], g_players[0].ringbuffer_b) >= worker[0].nFramesRead
    /\ WriteSpace(g_players[0], g_players[0].ringbuffer_a) < worker[0].nFramesRead

\* the wait loop is left, on an open file, only with room for the block in one ring
\* buffer at least
C25_RoomInOne ==
    StartsWriting
    => \/ WriteSpace(g_players[0], g_players[0].ringbuffer_a) >= worker[0].nFramesRead
       \/ WriteSpace(g_players[0], g_players[0].ringbuffer_b) >= worker[0].nFramesRead

\* where no reset has fallen between the two writes of a frame the ring buffers hold
\* the same number of samples, and then both have room
C25_RoomWhileLevel ==
    StartsWriting /\ Len(g_players[0].ringbuffer_a) = Len(g_players[0].ringbuffer_b)
    => WriteSpace(g_players[0], g_players[0].ringbuffer_a) >= worker[0].nFramesRead

\* the period that has just ended found the loop end or the end of input on the open
\* player in slot 0, whose loop is enabled and not empty
LoopWrapped ==
    /\ OpenPlayer(0)
    /\ rt[0].ran /\ rt[0].looped
    /\ g_players[0].loop # 0
    /\ g_players[0].loop_start_src < g_players[0].loop_end_src

\* C26: with loop enabled and loop_start_src < loop_end_src, at the end of every
\* realtime period that detected the loop end or the end of input the play position is
\* in [loop_start_src, loop_end_src) and the read state is LOOPING.
C26_WrapLandsInLoop ==
    LoopWrapped
    => /\ g_players[0].play_pos_frames >= g_players[0].loop_start_src
       /\ g_players[0].play_pos_frames < g_players[0].loop_end_src
       /\ g_players[0].file_read_status = LOOPING

\* a wrap has left the play position at or past the loop end
C26_WrapPastLoopEnd ==
    /\ LoopWrapped
    /\ g_players[0].play_pos_frames >= g_players[0].loop_end_src

\* the wrapped position is never short of the loop start, the read state is LOOPING,
\* and a loop that starts at frame 0 keeps the position short of the loop end
C26_WrapFromLoopStart ==
    LoopWrapped
    => /\ g_players[0].play_pos_frames >= g_players[0].loop_start_src
       /\ g_players[0].file_read_status = LOOPING
       /\ g_players[0].loop_start_src = 0
             => g_players[0].play_pos_frames < g_players[0].loop_end_src

\* start_playback has stored STARTING on the open player in slot 0
StartPending == OpenPlayer(0) /\ g_players[0].play_state = STARTING

\* the transport of the player in slot 0 is PLAYING, or was in the period that has just
\* ended and that reached the end of the file, or its file is no longer open
PlayingOrClosed ==
    \/ ~OpenPlayer(0)
    \/ g_players[0].play_state = PLAYING
    \/ rt[0].ran /\ \E i \in DOMAIN rt[0].trace : rt[0].trace[i] = PLAYING

\* C28: on an open player, after start_playback and with no stop, seek, note event or
\* unload after it, the transport eventually becomes PLAYING, the worker and the periodic
\* callback being scheduled again and again.
C28_StartLeadsToPlaying == StartPending ~> PlayingOrClosed

\* the store of line 713 has replaced the STARTING that start_playback had stored after
\* the test of line 708
C28_StartOverwritten ==
    /\ OpenPlayer(0)
    /\ rt[0].ran /\ rt[0].trace = <<STARTING, STOPPED>>
    /\ g_players[0].play_state = STOPPED

\* a STARTING that a period finds at its first line becomes PLAYING in that period or
\* stays until the worker has served the pending seek
C28_WholePeriodKeepsStart ==
    [][StartPending /\ period.pc = "out" /\ rt'[0].ran
       => g_players'[0].play_state = (IF g_players[0].file_read_status # SEEKING
                                     THEN PLAYING ELSE STARTING)
          \/ rt'[0].ended]_vars

\* this step is a pass of the worker of player 0 over lines 273-353 in which a read in
\* state LOADING returns no frame
ZeroRead ==
    /\ Running(0) /\ worker[0].pc = "loop" /\ worker'[0].pc = "wait"
    /\ OpenPlayer(0)
    /\ AtRead.p.file_read_status = LOADING
    /\ ReadCount(AtRead.p.sf_info, AtRead.p.file_read_pos, ReadRequest(AtRead.p, AtRead.w)) = 0

\* what lines 318-335 leave after a read of no frame
AfterZeroRead ==
    /\ AtRead.p.loop # 0 /\ AtRead.p.loop_loaded = 0
          => g_players'[0].file_read_status = LOOPING
    /\ AtRead.p.loop # 0 /\ AtRead.p.loop_loaded # 0
          => g_players'[0].file_read_status = IDLE
    /\ AtRead.p.loop = 0
          => g_players'[0].file_read_status = IDLE /\ worker'[0].end_of_input = 1

\* C29: a LOADING read of no frame leaves the read state LOOPING if looping is enabled
\* and no loop segment is queued, IDLE if looping is enabled and one is queued, IDLE with
\* end of input if looping is disabled; and between two wraps of the play position the
\* worker seeks back to loop_start at most once.
C29_OneLoopSeekPerWrap ==
    [][/\ ZeroRead => AfterZeroRead
       /\ \A h \in PlayerHandles : worker'[h].loop_seeks <= 1]_vars

\* the worker has sought back to loop_start a second time since the last wrap, the loop
\* segment of the first still in the ring buffers
C29_SecondLoopSeek ==
    /\ OpenPlayer(0)
    /\ worker[0].loop_seeks = 2
    /\ g_players[0].loop_loaded = 1
    /\ g_players[0].ringbuffer_a # <<>>

\* the read state after a read of no frame is the one of lines 318-335
C29_ZeroReadOutcome == [][ZeroRead => AfterZeroRead]_vars

\* a read of no frame sends the worker back to loop_start only when no loop segment is
\* queued
C29_ZeroReadQueuesOnce ==
    [][ZeroRead /\ g_players'[0].file_read_status = LOOPING
       => AtRead.p.loop_loaded = 0]_vars

\* the samples that the audio path of a period of nFrames takes out of ring buffer A of
\* the player in slot h
Removed(h, nFrames) ==
    Len(g_players[h].ringbuffer_a) - Len(AfterAudio(nFrames)[h].ringbuffer_a)

\* C30: in every realtime period that finds the transport PLAYING or STOPPING, the play
\* position, before the end and loop handling, has gone up by exactly the number of
\* samples taken out of the ring buffer, which at normal speed is the number of samples
\* emitted and with a pitch shift the number drained; the number emitted is never more
\* than the period length.
C30_PositionFollowsReads ==
    [][\A h \in PlayerHandles :
          rt'[h].ran /\ rt'[h].active /\ period.pc = "out"
          => /\ rt'[h].reached = g_players[h].play_pos_frames + Removed(h, PeriodFrames)
             /\ rt'[h].r_count = Removed(h, PeriodFrames)
             /\ g_players[h].pitch_shift = FScale => rt'[h].a_count = rt'[h].r_count
             /\ rt'[h].a_count <= PeriodFrames]_vars

\* a period with a pitch shift has drained a number of samples other than the number
\* it emitted
C30_DrainedNotEmitted ==
    /\ OpenPlayer(0)
    /\ g_players[0].pitch_shift # FScale
    /\ rt[0].ran /\ rt[0].active
    /\ rt[0].r_count > 0 /\ rt[0].r_count # rt[0].a_count

\* a period at normal speed has emitted less than a period of samples, the ring buffer
\* holding no more
C30_ShortPeriod ==
    /\ OpenPlayer(0)
    /\ g_players[0].pitch_shift = FScale
    /\ rt[0].ran /\ rt[0].active
    /\ rt[0].a_count > 0 /\ rt[0].a_count < PeriodFrames

\* lines 685-720: what the period now starting leaves in the port buffers of the
\* player h, whose gain the period does not change
PortA(h, nFrames) ==
    Finish(PlayerPeriod(h, nFrames).outA, PlayerPeriod(h, nFrames).ob.a_count,
           g_players[h].gain, PlayerPeriod(h, nFrames).ob.stops)
PortB(h, nFrames) ==
    Finish(PlayerPeriod(h, nFrames).outB, PlayerPeriod(h, nFrames).ob.a_count,
           g_players[h].gain, PlayerPeriod(h, nFrames).ob.stops)

RingsEmpty(p) == Len(p.ringbuffer_a) = 0 /\ Len(p.ringbuffer_b) = 0

AllSilent(out) == \A i \in DOMAIN out : out[i] = 0

\* C31: a realtime period leaves, for every player with an open file, zero in both port
\* buffers at every index from the number of samples emitted onward; a player whose
\* transport at line 656 is STOPPED or STARTING, or whose two ring buffers are empty,
\* is given a wholly silent period, in the one step the period takes.
C31_SilentPastEmitted ==
    [][\A h \in PlayerHandles :
          OpenPlayer(h) /\ rt'[h].ran /\ period.pc = "out"
          => /\ \A i \in 1..PeriodFrames :
                   i > rt'[h].a_count
                   => PortA(h, PeriodFrames)[i] = 0 /\ PortB(h, PeriodFrames)[i] = 0
             /\ (~rt'[h].active \/ RingsEmpty(g_players[h]))
                => /\ AllSilent(PortA(h, PeriodFrames))
                   /\ AllSilent(PortB(h, PeriodFrames))]_vars

\* a period has found the transport PLAYING and nothing to emit, and has left it PLAYING
C31_SilentWhilePlaying ==
    /\ OpenPlayer(0)
    /\ rt[0].ran /\ rt[0].active
    /\ rt[0].a_count = 0
    /\ g_players[0].play_state = PLAYING

\* the period that now ends has handled the one event ev
EventStep(ev) == on_jack_process(PeriodFrames, <<ev>>) /\ ~crashed'

\* the event is a note-off or a note-on with velocity 0
ReleasesNote(ev) == ev.cmd = NOTE_OFF \/ (ev.cmd = NOTE_ON /\ ev.d2 = 0)

\* the event has stopped the player p: transport as stop_playback leaves it, pitch
\* ratio 1.0, no last note
StoppedByEvent(p, q) ==
    /\ q.play_state = (IF p.play_state = STOPPED THEN STOPPED ELSE STOPPING)
    /\ q.pitch_shift = FScale
    /\ q.last_note_played = 0

\* the event has left the player p as it was
UntouchedByEvent(p, q) ==
    /\ q.play_state = p.play_state
    /\ q.play_pos_frames = p.play_pos_frames
    /\ q.file_read_status = p.file_read_status
    /\ q.pitch_shift = p.pitch_shift
    /\ q.last_note_played = p.last_note_played

\* C32: a note-off, or a note-on with velocity 0, stops the player, sets its pitch ratio
\* to 1.0 and clears its last note when its note is the last note of the player, and
\* otherwise leaves transport, play position, read state, pitch ratio and last note as
\* the audio part of the period left them.
C32_ReleaseStopsOnlyItsNote ==
    [][\A ev \in NoteEvents :
          g_players[0] # NULL /\ ReleasesNote(ev) /\ EventStep(ev)
          => LET p == AfterAudio(PeriodFrames)[0]
             IN  IF p.last_note_played = ev.d1
                 THEN StoppedByEvent(p, g_players'[0])
                 ELSE UntouchedByEvent(p, g_players'[0])]_vars

\* C32, for the events that line 736 takes as a note-off and for the note-off of
\* another note
C32_NoteOffStopsOnlyItsNote ==
    [][\A ev \in NoteEvents :
          g_players[0] # NULL /\ ReleasesNote(ev) /\ EventStep(ev)
          => LET p == AfterAudio(PeriodFrames)[0]
             IN  /\ p.last_note_played = ev.d1 => StoppedByEvent(p, g_players'[0])
                 /\ p.last_note_played # ev.d1 /\ ev.cmd = NOTE_OFF
                    => UntouchedByEvent(p, g_players'[0])]_vars

\* C33: when a period has handled a note-on with a velocity other than 0 on channel c,
\* the player with handle c has its play position at loop_start_src, its read state
\* SEEKING, both ring buffers empty, the note as last note and the transport STARTING.
C33_NoteOnRestarts ==
    [][\A ev \in NoteEvents :
          /\ g_players[ev.chan] # NULL
          /\ ev.cmd = NOTE_ON /\ ev.d2 > 0
          /\ EventStep(ev)
          => LET q == g_players'[ev.chan]
             IN  /\ q.play_pos_frames = g_players[ev.chan].loop_start_src
                 /\ q.play_pos_frames = q.loop_start_src
                 /\ q.file_read_status = SEEKING
                 /\ RingsEmpty(q)
                 /\ q.last_note_played = ev.d1
                 /\ q.play_state = STARTING]_vars

\* a period has emitted samples of the player and then restarted it for note 72, away
\* from the position it had reached
C33_RestartedWhilePlaying ==
    /\ OpenPlayer(0)
    /\ rt[0].ran /\ rt[0].active /\ rt[0].a_count > 0
    /\ rt[0].reached > g_players[0].loop_start_src
    /\ g_players[0].last_note_played = 72
    /\ g_players[0].play_state = STARTING
    /\ g_players[0].file_read_status = SEEKING
    /\ g_players[0].play_pos_frames = g_players[0].loop_start_src
    /\ RingsEmpty(g_players[0])

\* the step that led here was a period of the realtime callback that found the file of
\* the player h open
PeriodRan(h) == rt[h].ran

\* C34: no period of the realtime callback invokes the change-notification callback,
\* whatever event it handles.
C34_NoCallbackInProcess ==
    \A h \in PlayerHandles : PeriodRan(h) => cb_last = NoCallback

\* a period has handled the note-off of the note being played and has invoked the
\* callback of the player with the transport STOPPING
C34_CallbackInProcess ==
    /\ PeriodRan(0)
    /\ cb_last.param = "TRANSPORT"
    /\ cb_last.h = 0
    /\ cb_last.value = STOPPING
    /\ g_players[0].last_note_played = 0

\* C35: the callback is invoked for the transport only with a value that differs from
\* the snapshot of the last notification, also when the pass of the worker and the pass
\* of an API call run at the same time.
C35_NotifiedOnlyOnChange ==
    cb_last.param = "TRANSPORT" => cb_last.value # cb_last.prev

\* the callback has been invoked with the transport STARTING while the snapshot, updated
\* by the pass of the other thread, already was STARTING
C35_NotifiedTwice ==
    /\ cb_last.param = "TRANSPORT"
    /\ cb_last.value = STARTING
    /\ cb_last.prev = STARTING
    /\ g_players[cb_last.h] # NULL
    /\ g_players[cb_last.h].cb_fn

\* the channels of the open file with the parity of first
ChannelsFrom(first) == {k \in 0..(dmx.p.sf_info.channels - 1) : k % 2 = first}

RECURSIVE SumOfChannels(_, _)
SumOfChannels(i, K) ==
    IF K = {} THEN 0
    ELSE LET k == CHOOSE x \in K : TRUE IN ChannelOf(i, k) + SumOfChannels(i, K \ {k})

\* leg is the arithmetic mean of the channels K of frame i
IsMeanOf(leg, i, K) == Cardinality(K) * leg = LegScale * SumOfChannels(i, K)

\* C36: every frame written from a file of n >= 2 channels, n even or odd, has as leg A
\* the mean of the channels of even index when track_a = -1 and as leg B the mean of the
\* channels of odd index when track_b = -1; from a mono file each leg is half the channel.
C36_MixIsMean ==
    dmx.stage = "written"
    => \A i \in 1..dmx.nFramesRead :
          IF dmx.p.sf_info.channels >= 2
          THEN /\ dmx.p.track_a = 0 - 1 => IsMeanOf(dmx.a[i], i, ChannelsFrom(0))
               /\ dmx.p.track_b = 0 - 1 => IsMeanOf(dmx.b[i], i, ChannelsFrom(1))
          ELSE /\ 2 * dmx.a[i] = LegScale * ChannelOf(i, 0)
               /\ 2 * dmx.b[i] = LegScale * ChannelOf(i, 0)

\* C36 for the files of an even number of channels, the legs B of the others, and the
\* mono files
C36_MixIsMeanOfEven ==
    dmx.stage = "written"
    => \A i \in 1..dmx.nFramesRead :
          IF dmx.p.sf_info.channels >= 2
          THEN /\ dmx.p.track_a = 0 - 1 /\ dmx.p.sf_info.channels % 2 = 0
                  => IsMeanOf(dmx.a[i], i, ChannelsFrom(0))
               /\ dmx.p.track_b = 0 - 1 => IsMeanOf(dmx.b[i], i, ChannelsFrom(1))
          ELSE /\ 2 * dmx.a[i] = LegScale * ChannelOf(i, 0)
               /\ 2 * dmx.b[i] = LegScale * ChannelOf(i, 0)

\* a frame of a file of three channels has been written with leg A the sum of channels
\* 0 and 2
C36_SumOfThreeChannels ==
    /\ dmx.stage = "written"
    /\ dmx.p.sf_info.channels = 3
    /\ dmx.p.track_a = 0 - 1
    /\ dmx.nFramesRead > 0
    /\ dmx.a[1] = LegScale * (ChannelOf(1, 0) + ChannelOf(1, 2))
    /\ ChannelOf(1, 0) + ChannelOf(1, 2) > 0

\* the player h has an open file played at the rate of the file and at its pitch
PlainSpeed(h) ==
    /\ OpenPlayer(h)
    /\ IsUnity(g_players[h].src_ratio)
    /\ g_players[h].pitch_shift = FScale

\* C37: at resample ratio 1.0 and pitch ratio 1.0, whenever the realtime callback is
\* between two periods, the frame at the head of ring buffer A is the frame of the file
\* at the play position, whatever seeks, loop wraps and loop changes have been made.
C37_HeadIsPlayPosition ==
    \A h \in PlayerHandles :
       PlainSpeed(h) /\ period.pc = "out" /\ Len(g_players[h].ringbuffer_a) > 0
       => Head(g_players[h].ringbuffer_a) = g_players[h].play_pos_frames

\* a looping player is PLAYING at plain speed with the first frame of the loop at the
\* head of ring buffer A and its play position further on
C37_LoopStartQueuedTwice ==
    /\ PlainSpeed(0)
    /\ period.pc = "out"
    /\ g_players[0].play_state = PLAYING
    /\ g_players[0].loop = 1
    /\ Len(g_players[0].ringbuffer_a) > 0
    /\ Head(g_players[0].ringbuffer_a) = g_players[0].loop_start
    /\ g_players[0].play_pos_frames > g_players[0].loop_start_src

\* the player h holds no file: none was loaded, or the load failed, or the file was
\* unloaded, and no worker of it is left
FileClosed(h) ==
    /\ g_players[h] # NULL
    /\ g_players[h].file_open = FILE_CLOSED
    /\ worker[h].thread = "none"
    /\ api.pc = "idle"

\* C38: a player whose file is CLOSED, with no worker left and no call in progress, has
\* its transport STOPPED.
C38_ClosedIsStopped ==
    \A h \in PlayerHandles : FileClosed(h) => g_players[h].play_state = STOPPED

\* a player that never held a file has been started by a note-on
C38_StartedByNote ==
    /\ FileClosed(0)
    /\ g_players[0].rb # "alloc"
    /\ g_players[0].play_state = STARTING
    /\ g_players[0].last_note_played # 0

\* C39: whenever the realtime callback is between two periods, ring buffer B of a
\* player with an open file holds at least as many samples as ring buffer A and at most
\* one more.
C39_LegsLevel ==
    \A h \in PlayerHandles :
       OpenPlayer(h) /\ period.pc = "out"
       => /\ Len(g_players[h].ringbuffer_b) >= Len(g_players[h].ringbuffer_a)
          /\ Len(g_players[h].ringbuffer_b) <= Len(g_players[h].ringbuffer_a) + 1

\* the worker has written a block and gone back to its loop, no call is in progress, and
\* ring buffer A holds more samples than ring buffer B
C39_LegAAhead ==
    /\ OpenPlayer(0)
    /\ period.pc = "out"
    /\ api.pc = "idle"
    /\ worker[0].pc \notin {"write", "write_a"}
    /\ Len(g_players[0].ringbuffer_a) > Len(g_players[0].ringbuffer_b)

-----------------------------------------------------------------------------
(* zynmidicontroller.cpp: the queue of messages for the device, filled by    *)
(* sendDeviceMidi and emptied by onJackProcess, and the flag g_bMutex both  *)
(* test and set around their use of it.  g_bMutex is a plain bool: its test *)
(* (lines 88, 255) and its store (lines 90, 257) are separate steps.  A     *)
(* thread is at "wait" before the test, at "lock" past it, and from "push"  *)
(* or "p_send" until its store of false it is using the queue.             *)

OtherThanCtrl ==
    <<g_players, g_samplerate, worker, api, call, rt, cb_last, crashed, dmx, res, period>>

\* what the API functions and the drum pads hand to sendDeviceMidi: a status below 128,
\* values above 127, and messages of a device
CtrlMessages ==
    {[command |-> 127, value1 |-> 9, value2 |-> 0],
     [command |-> 191, value1 |-> 128, value2 |-> 128],
     [command |-> 191, value1 |-> 9, value2 |-> 1],
     [command |-> 159, value1 |-> 12, value2 |-> 127]}

\* lines 181 and 189: the message of a drum pad that was hit
DrumMessage == [command |-> 153, value1 |-> 36, value2 |-> 1]

\* line 82: the messages sendDeviceMidi does not drop
Accepted(m) == ~(m.command < 128 \/ (m.value1 > 127 /\ m.value2 > 127))

\* the thread is between its store of true to g_bMutex and its store of false
InCritical(t) == ctrl.pc[t] \in {"push", "unlock", "p_send", "p_clear", "p_unlock"}

\* another thread is
SharesQueue(t) == \E u \in CtrlThreads \ {t} : InCritical(u)

\* a use of the vector while another thread uses it is a data race on a std::vector:
\* the process may fault
RaceOutcome(t) == IF SharesQueue(t) THEN BOOLEAN ELSE {FALSE}

CtrlReady == ~ctrl.fault /\ Len(ctrl.g_vSendQueue) < MaxQueue

\* lines 80-87: sendDeviceMidi is called from an API function; a message that is not
\* accepted is dropped, else it is allocated and the thread reaches the loop of line 88
sendDeviceMidi_call(t, m) ==
    /\ CtrlReady
    /\ ctrl.pc[t] = "idle"
    /\ ctrl' = IF Accepted(m) THEN [ctrl EXCEPT !.pc[t] = "wait", !.pMsg[t] = m] ELSE ctrl
    /\ UNCHANGED OtherThanCtrl

\* lines 88-89: the loop is left when the flag is read false
sendDeviceMidi_wait(t) ==
    /\ ~ctrl.fault
    /\ ctrl.pc[t] = "wait"
    /\ ~ctrl.g_bMutex
    /\ ctrl' = [ctrl EXCEPT !.pc[t] = "lock"]
    /\ UNCHANGED OtherThanCtrl

\* line 90
sendDeviceMidi_lock(t) ==
    /\ ~ctrl.fault
    /\ ctrl.pc[t] = "lock"
    /\ ctrl' = [ctrl EXCEPT !.g_bMutex = TRUE, !.pc[t] = "push"]
    /\ UNCHANGED OtherThanCtrl

\* line 91
sendDeviceMidi_push(t) ==
    /\ ~ctrl.fault
    /\ ctrl.pc[t] = "push"
    /\ \E f \in RaceOutcome(t) :
          ctrl' = [ctrl EXCEPT !.g_vSendQueue = Append(@, ctrl.pMsg[t]),
                               !.pc[t] = "unlock", !.fault = f]
    /\ UNCHANGED OtherThanCtrl

\* lines 92-93: the flag is cleared and the call returns, to the API function or to
\* onJackProcess
sendDeviceMidi_unlock(t) ==
    /\ ~ctrl.fault
    /\ ctrl.pc[t] = "unlock"
    /\ ctrl' = [ctrl EXCEPT !.g_bMutex = FALSE,
                            !.pc[t] = IF t = JackThread THEN "p_wait" ELSE "idle",
                            !.pMsg[t] = NoMessage]
    /\ UNCHANGED OtherThanCtrl

\* lines 158-252: a period starts; the output buffers are cleared, and a drum pad event
\* of the input, if there is one, calls sendDeviceMidi (lines 181 and 189)
onJackProcess_begin(pad) ==
    /\ CtrlReady
    /\ ctrl.pc[JackThread] = "idle"
    /\ ctrl' = IF pad
               THEN [ctrl EXCEPT !.sent = <<>>, !.pc[JackThread] = "wait",
                                 !.pMsg[JackThread] = DrumMessage]
               ELSE [ctrl EXCEPT !.sent = <<>>, !.pc[JackThread] = "p_wait"]
    /\ UNCHANGED OtherThanCtrl

\* lines 255-256
onJackProcess_wait ==
    /\ ~ctrl.fault
    /\ ctrl.pc[JackThread] = "p_wait"
    /\ ~ctrl.g_bMutex
    /\ ctrl' = [ctrl EXCEPT !.pc[JackThread] = "p_lock"]
    /\ UNCHANGED OtherThanCtrl

\* lines 257-260: the flag is set and the iterator placed on the first message
onJackProcess_lock ==
    /\ ~ctrl.fault
    /\ ctrl.pc[JackThread] = "p_lock"
    /\ ctrl' = [ctrl EXCEPT !.g_bMutex = TRUE, !.pc[JackThread] = "p_send", !.it = 1]
    /\ UNCHANGED OtherThanCtrl

\* lines 260-269: one pass of the loop; reserved says whether jack_midi_event_reserve
\* had room for the message
onJackProcess_send(reserved) ==
    /\ ~ctrl.fault
    /\ ctrl.pc[JackThread] = "p_send"
    /\ ctrl' = IF ctrl.it > Len(ctrl.g_vSendQueue) \/ ~reserved
               THEN [ctrl EXCEPT !.pc[JackThread] = "p_clear"]
               ELSE [ctrl EXCEPT !.sent = Append(@, ctrl.g_vSendQueue[ctrl.it]),
                                 !.it = @ + 1]
    /\ UNCHANGED OtherThanCtrl

\* line 270
onJackProcess_clear ==
    /\ ~ctrl.fault
    /\ ctrl.pc[JackThread] = "p_clear"
    /\ \E f \in RaceOutcome(JackThread) :
          ctrl' = [ctrl EXCEPT !.g_vSendQueue = <<>>, !.pc[JackThread] = "p_unlock",
                               !.fault = f]
    /\ UNCHANGED OtherThanCtrl

\* lines 271-272
onJackProcess_unlock ==
    /\ ~ctrl.fault
    /\ ctrl.pc[JackThread] = "p_unlock"
    /\ ctrl' = [ctrl EXCEPT !.g_bMutex = FALSE, !.pc[JackThread] = "idle", !.it = 0]
    /\ UNCHANGED OtherThanCtrl

\* two threads call the API of the library while the jack thread runs its periods
NextSendQueue ==
    \/ \E t \in ApiCallers, m \in CtrlMessages : sendDeviceMidi_call(t, m)
    \/ \E t \in CtrlThreads : sendDeviceMidi_wait(t)
    \/ \E t \in CtrlThreads : sendDeviceMidi_lock(t)
    \/ \E t \in CtrlThreads : sendDeviceMidi_push(t)
    \/ \E t \in CtrlThreads : sendDeviceMidi_unlock(t)
    \/ \E pad \in BOOLEAN : onJackProcess_begin(pad)
    \/ onJackProcess_wait
    \/ onJackProcess_lock
    \/ \E reserved \in BOOLEAN : onJackProcess_send(reserved)
    \/ onJackProcess_clear
    \/ onJackProcess_unlock

SpecSendQueue == Init /\ [][NextSendQueue]_vars

\* C40: no two threads are between their store of true to g_bMutex and their store of
\* false at the same time: not a push of sendDeviceMidi and the send-and-clear loop of
\* onJackProcess, and not two pushes.
C40_MutualExclusion ==
    \A t, u \in CtrlThreads : t # u => ~(InCritical(t) /\ InCritical(u))

\* an API thread is about to push its message while the jack thread is inside its loop
\* over the queue
C40_PushInsideSendLoop ==
    /\ \E t \in ApiCallers : ctrl.pc[t] = "push"
    /\ ctrl.pc[JackThread] = "p_send"
    /\ ctrl.it <= Len(ctrl.g_vSendQueue)

\* two API threads are about to push
C40_TwoPushes == \A t \in ApiCallers : ctrl.pc[t] = "push"

====
